---- MODULE Spec2Model ----
(***************************************************************************)
(* A model of the Lazy interpreter of src/src/main.rs: the tagged values,  *)
(* the scope stack, the operator table, the built-in functions and the     *)
(* tree-walking evaluator, written as a small-step machine whose control   *)
(* stack holds one frame per pending Rust call (run_block, execute,        *)
(* eval_expr, call_function).                                              *)
(*                                                                         *)
(* Numbers are the whole f64 values, held as integers.  Texts are          *)
(* sequences of one-character strings.  Option<Value> is a sequence of     *)
(* length 0 (None) or 1 (Some).                                            *)
(***************************************************************************)
EXTENDS Integers, Sequences, FiniteSets, TLC

VARIABLES scopes, rng_state, out, ctl, stack, prev

vars == <<scopes, rng_state, out, ctl, stack, prev>>

(***************************************************************************)
(* enum Value                                                              *)
(***************************************************************************)
Number(n) == [t |-> "Number", n |-> n]

Text(s) == [t |-> "Text", s |-> s]

Bool(b) == [t |-> "Bool", b |-> b]

Nothing == [t |-> "Nothing"]

List(items) == [t |-> "List", items |-> items]

Function(params, body) == [t |-> "Function", params |-> params, body |-> body]

\* The quotient of two Numbers that is not a whole number (a fraction, an
\* infinity or NaN): kept unevaluated, outside the whole-number payloads.
Inexact(l, r) == [t |-> "Number", num |-> l, den |-> r]

None == << >>

Some(v) == <<v>>

(***************************************************************************)
(* enum Expr                                                               *)
(***************************************************************************)
ENumber(n) == [ex |-> "Number", n |-> n]

EText(s) == [ex |-> "Text", s |-> s]

EBool(b) == [ex |-> "Bool", b |-> b]

Variable(name) == [ex |-> "Variable", name |-> name]

EList(items) == [ex |-> "List", items |-> items]

Index(list_expr, index_expr) == [ex |-> "Index", list_expr |-> list_expr, index_expr |-> index_expr]

BinaryOp(left, op, right) == [ex |-> "BinaryOp", left |-> left, op |-> op, right |-> right]

EFunctionCall(name, args, mutates) == [ex |-> "FunctionCall", name |-> name, args |-> args, mutates |-> mutates]

(***************************************************************************)
(* enum Statement                                                          *)
(***************************************************************************)
SPrint(e) == [st |-> "Print", e |-> e]

Assign(name, e) == [st |-> "Assign", name |-> name, e |-> e]

AugAssign(name, op, e) == [st |-> "AugAssign", name |-> name, op |-> op, e |-> e]

IncDec(name, op) == [st |-> "IncDec", name |-> name, op |-> op]

If(cond, then_block, else_ifs, else_block) == [st |-> "If", cond |-> cond, then_block |-> then_block, else_ifs |-> else_ifs, else_block |-> else_block]

While(cond, body) == [st |-> "While", cond |-> cond, body |-> body]

For(var, list_expr, body) == [st |-> "For", var |-> var, list_expr |-> list_expr, body |-> body]

FunctionDef(name, params, body) == [st |-> "FunctionDef", name |-> name, params |-> params, body |-> body]

QuickFunctionDef(name, params, e) == [st |-> "QuickFunctionDef", name |-> name, params |-> params, e |-> e]

FunctionCall(name, args, mutates) == [st |-> "FunctionCall", name |-> name, args |-> args, mutates |-> mutates]

Return(e) == [st |-> "Return", e |-> e]

(***************************************************************************)
(* Text helpers                                                            *)
(***************************************************************************)
\* The characters the model's texts are made of, in byte order.
Ascii == <<" ", "\"", ",", "-", "0", "1", "2", "3", "4", "5", "6", "7", "8", "9", "<", ">", "[", "]", "a", "b", "c", "e", "f", "i", "n", "o", "s", "t", "u", "y">>

CharCode(c) == CHOOSE i \in 1..Len(Ascii) : Ascii[i] = c

Digits == <<"0", "1", "2", "3", "4", "5", "6", "7", "8", "9">>

IsDigit(c) == \E i \in 1..10 : Digits[i] = c

DigitVal(c) == (CHOOSE i \in 1..10 : Digits[i] = c) - 1

RECURSIVE DigitsOf(_)
DigitsOf(n) == IF n < 10 THEN <<Digits[n + 1]>> ELSE DigitsOf(n \div 10) \o <<Digits[(n % 10) + 1]>>

\* `{}` of an i64 (and of a whole f64).
fmt_int(n) == IF n < 0 THEN <<"-">> \o DigitsOf(0 - n) ELSE DigitsOf(n)

RECURSIVE join(_, _)
join(strs, sep) ==
  IF Len(strs) = 0 THEN << >>
  ELSE IF Len(strs) = 1 THEN strs[1]
  ELSE strs[1] \o sep \o join(Tail(strs), sep)

RECURSIVE fmt_plain(_)
\* A Display that writes the Texts of a List as it writes a Text alone
fmt_plain(v) ==
  CASE v.t = "Number" -> fmt_int(v.n)
    [] v.t = "Text" -> v.s
    [] v.t = "Bool" -> IF v.b THEN <<"y", "e", "s">> ELSE <<"n", "o">>
    [] v.t = "Nothing" -> << >>
    [] v.t = "List" -> <<"[">> \o join([i \in 1..Len(v.items) |-> fmt_plain(v.items[i])], <<" ">>) \o <<"]">>
    [] v.t = "Function" -> <<"<", "f", "u", "n", "c", "t", "i", "o", "n", ">">>

\* impl Display for Value
RECURSIVE fmt(_)
fmt(v) ==
  CASE v.t = "Number" -> fmt_int(v.n)
    [] v.t = "Text" -> v.s
    [] v.t = "Bool" -> IF v.b THEN <<"y", "e", "s">> ELSE <<"n", "o">>
    [] v.t = "Nothing" -> << >>
    [] v.t = "List" ->
         LET strs == [i \in 1..Len(v.items) |->
                        IF v.items[i].t = "Text"
                        THEN <<"\"">> \o v.items[i].s \o <<"\"">>
                        ELSE fmt(v.items[i])]
         IN <<"[">> \o join(strs, <<" ">>) \o <<"]">>
    [] v.t = "Function" -> <<"<", "f", "u", "n", "c", "t", "i", "o", "n", ">">>

RECURSIVE DigitsValue(_)
DigitsValue(s) == IF Len(s) = 0 THEN 0 ELSE DigitsValue(SubSeq(s, 1, Len(s) - 1)) * 10 + DigitVal(s[Len(s)])

AllDigits(s) == Len(s) > 0 /\ \A i \in 1..Len(s) : IsDigit(s[i])

\* str::parse::<f64> on the texts of the model (an optional sign and decimal
\* digits; any other text over Ascii is an error): Some(n) or None.
parse_f64(s) ==
  IF AllDigits(s) THEN Some(DigitsValue(s))
  ELSE IF Len(s) > 1 /\ s[1] = "-" /\ AllDigits(Tail(s)) THEN Some(0 - DigitsValue(Tail(s)))
  ELSE None

IsPrefixAt(s, sep, i) == i + Len(sep) - 1 <= Len(s) /\ SubSeq(s, i, i + Len(sep) - 1) = sep

\* str::split with a non-empty separator
RECURSIVE split(_, _)
split(s, sep) ==
  IF \E i \in 1..Len(s) : IsPrefixAt(s, sep, i)
  THEN LET i == CHOOSE i \in 1..Len(s) : IsPrefixAt(s, sep, i) /\ \A j \in 1..(i - 1) : ~IsPrefixAt(s, sep, j)
       IN <<SubSeq(s, 1, i - 1)>> \o split(SubSeq(s, i + Len(sep), Len(s)), sep)
  ELSE <<s>>

\* Ord for String: byte-wise lexicographic
RECURSIVE str_lt(_, _)
str_lt(x, y) ==
  IF Len(y) = 0 THEN FALSE
  ELSE IF Len(x) = 0 THEN TRUE
  ELSE IF CharCode(x[1]) # CharCode(y[1]) THEN CharCode(x[1]) < CharCode(y[1])
  ELSE str_lt(Tail(x), Tail(y))

(***************************************************************************)
(* The scope stack: Vec<HashMap<String, Value>>, innermost scope last      *)
(***************************************************************************)
HashMapNew == [k \in {} |-> Nothing]

\* HashMap::insert
insert(scope, name, val) == [k \in (DOMAIN scope) \cup {name} |-> IF k = name THEN val ELSE scope[k]]

Holders(scps, name) == {i \in 1..Len(scps) : name \in DOMAIN scps[i]}

Innermost(S) == CHOOSE i \in S : \A j \in S : j <= i

\* A get_var that looks in the current scope and then the global one only
get_var_static(scps, name) ==
  IF name \in DOMAIN scps[Len(scps)] THEN scps[Len(scps)][name]
  ELSE IF name \in DOMAIN scps[1] THEN scps[1][name]
  ELSE Nothing

get_var(scps, name) ==
  IF Holders(scps, name) # {} THEN scps[Innermost(Holders(scps, name))][name]
  ELSE Nothing

\* set_var that always writes the current (last) scope
set_var_top(scps, name, val) == [scps EXCEPT ![Len(scps)] = insert(@, name, val)]

set_var(scps, name, val) ==
  IF Holders(scps, name) # {}
  THEN [scps EXCEPT ![Innermost(Holders(scps, name))] = insert(@, name, val)]
  ELSE IF Len(scps) > 0 THEN [scps EXCEPT ![Len(scps)] = insert(@, name, val)]
  ELSE scps

\* `if let Some(scope) = self.scopes.last_mut() { scope.insert(..) }`
insert_last(scps, name, val) ==
  IF Len(scps) > 0 THEN [scps EXCEPT ![Len(scps)] = insert(@, name, val)]
  ELSE scps

(***************************************************************************)
(* apply_op: the operator table                                            *)
(***************************************************************************)
Sign(n) == IF n < 0 THEN 0 - 1 ELSE 1

Abs(n) == IF n < 0 THEN 0 - n ELSE n

\* f64 `/` and `%` on whole operands
f64_div(l, r) == IF r # 0 /\ Abs(l) % Abs(r) = 0 THEN Number(Sign(l) * Sign(r) * (Abs(l) \div Abs(r))) ELSE Inexact(l, r)

\* l % 0.0 is NaN, held as 0/0
f64_rem(l, r) == IF r # 0 THEN Number(Sign(l) * (Abs(l) % Abs(r))) ELSE Inexact(0, 0)

apply_op(left, op, right) ==
  CASE left.t = "Number" /\ right.t = "Number" ->
         CASE op = "+" -> Number(left.n + right.n)
           [] op = "-" -> Number(left.n - right.n)
           [] op = "*" -> Number(left.n * right.n)
           [] op = "/" -> f64_div(left.n, right.n)
           [] op = "%" -> f64_rem(left.n, right.n)
           [] op = ">" -> Bool(left.n > right.n)
           [] op = "<" -> Bool(left.n < right.n)
           [] op = "==" -> Bool(left.n = right.n)
           [] op = "!=" -> Bool(left.n # right.n)
           [] op = ">=" -> Bool(left.n >= right.n)
           [] op = "<=" -> Bool(left.n <= right.n)
           [] OTHER -> Nothing
    [] left.t = "Text" /\ right.t = "Text" /\ op = "+" -> Text(left.s \o right.s)
    [] left.t = "Text" /\ right.t = "Text" /\ op = "==" -> Bool(left.s = right.s)
    [] left.t = "Text" /\ right.t = "Text" /\ op = "!=" -> Bool(left.s # right.s)
    [] left.t = "Text" /\ right.t = "Number" /\ op = "+" -> Text(left.s \o fmt_int(right.n))
    [] left.t = "Number" /\ right.t = "Text" /\ op = "+" -> Text(fmt_int(left.n) \o right.s)
    [] left.t = "Bool" /\ right.t = "Bool" /\ op = "==" -> Bool(left.b = right.b)
    [] left.t = "Bool" /\ right.t = "Bool" /\ op = "!=" -> Bool(left.b # right.b)
    [] left.t = "List" /\ right.t = "List" /\ op = "+" -> List(left.items \o right.items)
    [] OTHER -> Nothing

(***************************************************************************)
(* The random number state: a u64, held as its W bits, lowest first        *)
(***************************************************************************)
W == 64

RECURSIVE Pow2(_)
Pow2(k) == IF k = 0 THEN 1 ELSE 2 * Pow2(k - 1)

\* The u64 of a small natural number (below 2^30).
ToBits(n) == [i \in 1..W |-> IF i <= 30 THEN (n \div Pow2(i - 1)) % 2 ELSE 0]

Zero64 == [i \in 1..W |-> 0]

Shl(x, k) == [i \in 1..W |-> IF i > k THEN x[i - k] ELSE 0]

Shr(x, k) == [i \in 1..W |-> IF i + k <= W THEN x[i + k] ELSE 0]

Xor(x, y) == [i \in 1..W |-> (x[i] + y[i]) % 2]

\* x % m for 0 < m < 2^30, from the highest bit down
RECURSIVE ModFrom(_, _, _, _)
ModFrom(x, m, i, acc) ==
  IF i = 0 THEN acc
  ELSE LET next == (2 * acc + x[i]) % m
       IN IF next >= m THEN next ELSE ModFrom(x, m, i - 1, next)

Mod64(x, m) == ModFrom(x, m, W, 0)

xorshift(x) ==
  LET a == Xor(x, Shl(x, 13))
      b == Xor(a, Shr(a, 7))
  IN Xor(b, Shl(b, 17))

\* next_random(max): the Number returned and the state left
\* A next_random without the `if max == 0 { return 0.0; }` line first
next_random_always(state, max) ==
  IF max = 0 THEN [ret |-> 0, rng_state |-> xorshift(state)]
  ELSE [ret |-> Mod64(xorshift(state), max), rng_state |-> xorshift(state)]

next_random(state, max) ==
  IF max = 0 THEN [ret |-> 0, rng_state |-> state]
  ELSE [ret |-> Mod64(xorshift(state), max), rng_state |-> xorshift(state)]

\* `f as u64` of a whole f64: saturating
as_u64(n) == IF n < 0 THEN 0 ELSE n

(***************************************************************************)
(* call_function: the built-in arms                                        *)
(***************************************************************************)
BuiltinNames == {"?=", "#", "$", "~", "^", "v", "&", "|", "!", "<>", "++", "--", "><", "<<"}

\* args.get(i) is Some(..) of the given variant
HasArg(args, i) == Len(args) > i

ArgIs(args, i, tag) == Len(args) > i /\ args[i + 1].t = tag

\* The closure of "++": -1 Less, 0 Equal, 1 Greater
\* f64::partial_cmp on two Number payloads, each a whole number or a
\* quotient num/den: Some(-1), Some(0), Some(1), or None when either is NaN (0/0).
partial_cmp(x, y) ==
  LET den(v) == IF "n" \in DOMAIN v THEN 1 ELSE Abs(v.den)
      num(v) == IF "n" \in DOMAIN v THEN v.n ELSE IF v.den < 0 THEN 0 - v.num ELSE v.num
      l == IF den(x) = 0 /\ den(y) = 0 THEN Sign(num(x)) ELSE num(x) * den(y)
      r == IF den(x) = 0 /\ den(y) = 0 THEN Sign(num(y)) ELSE num(y) * den(x)
  IN IF (den(x) = 0 /\ num(x) = 0) \/ (den(y) = 0 /\ num(y) = 0) THEN None
     ELSE IF l < r THEN Some(0 - 1) ELSE IF l > r THEN Some(1) ELSE Some(0)

cmp_asc(a, b) ==
  IF a.t = "Number" /\ b.t = "Number"
  THEN (IF partial_cmp(a, b) = None THEN 0 ELSE partial_cmp(a, b)[1])
  ELSE IF a.t = "Text" /\ b.t = "Text"
  THEN (IF str_lt(a.s, b.s) THEN 0 - 1 ELSE IF str_lt(b.s, a.s) THEN 1 ELSE 0)
  ELSE 0

\* A "--" whose closure compares as that of "++" does
cmp_desc_same(a, b) == cmp_asc(a, b)

\* The closure of "--": the operands compared the other way round
cmp_desc(a, b) == cmp_asc(b, a)

compare(desc, a, b) == IF desc THEN cmp_desc(a, b) ELSE cmp_asc(a, b)

\* slice::sort_by, a stable sort: each element goes after the last one that
\* does not compare Greater than it.
RECURSIVE sort_insert(_, _, _)
sort_insert(ys, x, desc) ==
  IF Len(ys) = 0 THEN <<x>>
  ELSE IF compare(desc, ys[Len(ys)], x) = 1
  THEN sort_insert(SubSeq(ys, 1, Len(ys) - 1), x, desc) \o <<ys[Len(ys)]>>
  ELSE ys \o <<x>>

RECURSIVE sort_by(_, _)
sort_by(items, desc) ==
  IF Len(items) = 0 THEN << >>
  ELSE sort_insert(sort_by(SubSeq(items, 1, Len(items) - 1), desc), items[Len(items)], desc)

reverse(items) == [i \in 1..Len(items) |-> items[Len(items) + 1 - i]]

\* The loop of "<<": push each item the vector does not contain yet
RECURSIVE unique(_)
unique(items) ==
  IF Len(items) = 0 THEN << >>
  ELSE LET u == unique(SubSeq(items, 1, Len(items) - 1))
           x == items[Len(items)]
       IN IF \E i \in 1..Len(u) : u[i] = x THEN u ELSE Append(u, x)

\* The texts "&" joins
join_strs(items) == [i \in 1..Len(items) |-> IF items[i].t = "Text" THEN items[i].s ELSE fmt(items[i])]

\* The built-in arms of call_function, one operator each, on the vector args.
\* "?=" alone uses the interpreter: it takes and leaves rng_state.
builtin_random(state, args) ==
  IF ArgIs(args, 0, "Number")
  THEN LET r == next_random(state, as_u64(args[1].n))
       IN [ret |-> Number(r.ret), rng_state |-> r.rng_state]
  ELSE [ret |-> Number(0), rng_state |-> state]

builtin_len(args) ==
  IF ArgIs(args, 0, "List") THEN Number(Len(args[1].items))
  ELSE IF ArgIs(args, 0, "Text") THEN Number(Len(args[1].s))
  ELSE Number(0)

builtin_str(args) == IF HasArg(args, 0) THEN Text(fmt(args[1])) ELSE Text(<< >>)

builtin_num(args) ==
  IF ArgIs(args, 0, "Text")
  THEN (IF parse_f64(args[1].s) # None THEN Number(parse_f64(args[1].s)[1]) ELSE Number(0))
  ELSE IF ArgIs(args, 0, "Number") THEN args[1]
  ELSE Number(0)

builtin_push(args) ==
  IF ArgIs(args, 0, "List") /\ HasArg(args, 1)
  THEN List(Append(args[1].items, args[2]))
  ELSE Nothing

builtin_pop(args) ==
  IF ArgIs(args, 0, "List") /\ Len(args[1].items) > 0
  THEN List(SubSeq(args[1].items, 1, Len(args[1].items) - 1))
  ELSE Nothing

builtin_join(args) ==
  IF ArgIs(args, 0, "List") /\ ArgIs(args, 1, "Text")
  THEN Text(join(join_strs(args[1].items), args[2].s))
  ELSE Text(<< >>)

builtin_split(args) ==
  IF ArgIs(args, 0, "Text") /\ ArgIs(args, 1, "Text")
  THEN (IF Len(args[2].s) = 0 THEN List(<< >>)
        ELSE List([i \in 1..Len(split(args[1].s, args[2].s)) |-> Text(split(args[1].s, args[2].s)[i])]))
  ELSE List(<< >>)

\* "!" with Nothing as the fallback of its `_` arm
builtin_not_nothing(args) == IF ArgIs(args, 0, "Bool") THEN Bool(~args[1].b) ELSE Nothing

builtin_not(args) == IF ArgIs(args, 0, "Bool") THEN Bool(~args[1].b) ELSE Bool(FALSE)

builtin_reverse(args) == IF ArgIs(args, 0, "List") THEN List(reverse(args[1].items)) ELSE Nothing

builtin_sort_asc(args) == IF ArgIs(args, 0, "List") THEN List(sort_by(args[1].items, FALSE)) ELSE Nothing

builtin_sort_desc(args) == IF ArgIs(args, 0, "List") THEN List(sort_by(args[1].items, TRUE)) ELSE Nothing

builtin_contains(args) ==
  IF ArgIs(args, 0, "List") /\ HasArg(args, 1)
  THEN Bool(\E i \in 1..Len(args[1].items) : args[1].items[i] = args[2])
  ELSE Bool(FALSE)

builtin_unique(args) == IF ArgIs(args, 0, "List") THEN List(unique(args[1].items)) ELSE Nothing

\* `match name { .. }` over the built-in names, run on the interpreter `self`
\* ([scopes, rng_state]): the value returned and the interpreter left.
call_builtin(self, name, args) ==
  CASE name = "?=" ->
         [ret |-> builtin_random(self.rng_state, args).ret,
          self |-> [self EXCEPT !.rng_state = builtin_random(self.rng_state, args).rng_state]]
    [] name = "#" -> [ret |-> builtin_len(args), self |-> self]
    [] name = "$" -> [ret |-> builtin_str(args), self |-> self]
    [] name = "~" -> [ret |-> builtin_num(args), self |-> self]
    [] name = "^" -> [ret |-> builtin_push(args), self |-> self]
    [] name = "v" -> [ret |-> builtin_pop(args), self |-> self]
    [] name = "&" -> [ret |-> builtin_join(args), self |-> self]
    [] name = "|" -> [ret |-> builtin_split(args), self |-> self]
    [] name = "!" -> [ret |-> builtin_not(args), self |-> self]
    [] name = "<>" -> [ret |-> builtin_reverse(args), self |-> self]
    [] name = "++" -> [ret |-> builtin_sort_asc(args), self |-> self]
    [] name = "--" -> [ret |-> builtin_sort_desc(args), self |-> self]
    [] name = "><" -> [ret |-> builtin_contains(args), self |-> self]
    [] name = "<<" -> [ret |-> builtin_unique(args), self |-> self]

\* The scope call_function builds for a Function: params[i] -> args[i] where
\* args has an i-th element.
local_scope(params, args) ==
  LET bound == {i \in 1..Len(params) : i <= Len(args)}
      names == {params[i] : i \in bound}
  IN [k \in names |-> args[CHOOSE i \in bound : params[i] = k /\ \A j \in bound : params[j] = k => j <= i]]

(***************************************************************************)
(* The evaluator as a machine.  ctl is what runs now:                      *)
(*   run   run_block(body) is entered                                      *)
(*   exec  execute(stmt) is entered                                        *)
(*   eval  eval_expr(e) is entered                                         *)
(*   args  `args.iter().map(|a| self.eval_expr(a)).collect()` is entered   *)
(*   call  call_function(name, args, mutates) is entered                   *)
(*   val   an eval_expr or call_function returned the Value v              *)
(*   vals  the collect() returned the vector vs                            *)
(*   res   an execute or run_block returned the Option<Value> r            *)
(*   halt  main's run_block returned                                       *)
(* stack holds the callers, innermost last: each frame is the rest of one  *)
(* Rust function body.  prev is the state before the last step and the     *)
(* name of that step (a history variable).                                 *)
(***************************************************************************)
Run(body) == [m |-> "run", body |-> body]

Exec(stmt) == [m |-> "exec", stmt |-> stmt]

Eval(e) == [m |-> "eval", e |-> e]

EvalArgs(exprs) == [m |-> "args", exprs |-> exprs]

Call(name, args, mutates) == [m |-> "call", name |-> name, args |-> args, mutates |-> mutates]

Val(v) == [m |-> "val", v |-> v]

Vals(vs) == [m |-> "vals", vs |-> vs]

Res(r) == [m |-> "res", r |-> r]

Halted == [m |-> "halt"]

Top == stack[Len(stack)]

Popped == SubSeq(stack, 1, Len(stack) - 1)

Push(fr) == Append(stack, fr)

Replace(fr) == [stack EXCEPT ![Len(stack)] = fr]

Snap(a) == [act |-> a, ctl |-> ctl, stack |-> stack, scopes |-> scopes, out |-> out, rng_state |-> rng_state]

AtExec(kind) == ctl.m = "exec" /\ ctl.stmt.st = kind

AtEval(kind) == ctl.m = "eval" /\ ctl.e.ex = kind

OnVal(f) == ctl.m = "val" /\ Len(stack) > 0 /\ Top.f = f

OnVals(f) == ctl.m = "vals" /\ Len(stack) > 0 /\ Top.f = f

OnRes(f) == ctl.m = "res" /\ Len(stack) > 0 /\ Top.f = f

(***************************************************************************)
(* run_block                                                               *)
(***************************************************************************)
RunBlock ==
  /\ ctl.m = "run"
  /\ IF Len(ctl.body) = 0
     THEN ctl' = Res(None) /\ stack' = stack
     ELSE ctl' = Exec(ctl.body[1]) /\ stack' = Push([f |-> "Block", body |-> ctl.body, i |-> 1])
  /\ prev' = Snap("RunBlock")
  /\ UNCHANGED <<scopes, rng_state, out>>

\* `if let Some(val) = self.execute(stmt) { return Some(val); }`, else the next
\* statement, else None
BlockNext ==
  /\ OnRes("Block")
  /\ IF ctl.r # None
     THEN ctl' = ctl /\ stack' = Popped
     ELSE IF Top.i < Len(Top.body)
     THEN ctl' = Exec(Top.body[Top.i + 1]) /\ stack' = Replace([Top EXCEPT !.i = @ + 1])
     ELSE ctl' = Res(None) /\ stack' = Popped
  /\ prev' = Snap("BlockNext")
  /\ UNCHANGED <<scopes, rng_state, out>>

\* main: `interp.run_block(&stmts);`
Halt ==
  /\ ctl.m = "res"
  /\ Len(stack) = 0
  /\ ctl' = Halted
  /\ prev' = Snap("Halt")
  /\ UNCHANGED <<scopes, rng_state, out, stack>>

(***************************************************************************)
(* execute                                                                 *)
(***************************************************************************)
ExecPrint ==
  /\ AtExec("Print")
  /\ ctl' = Eval(ctl.stmt.e)
  /\ stack' = Push([f |-> "Print"])
  /\ prev' = Snap("ExecPrint")
  /\ UNCHANGED <<scopes, rng_state, out>>

PrintValue ==
  /\ OnVal("Print")
  /\ out' = IF ctl.v # Nothing THEN Append(out, fmt(ctl.v)) ELSE out
  /\ ctl' = Res(None)
  /\ stack' = Popped
  /\ prev' = Snap("PrintValue")
  /\ UNCHANGED <<scopes, rng_state>>

ExecAssign ==
  /\ AtExec("Assign")
  /\ ctl' = Eval(ctl.stmt.e)
  /\ stack' = Push([f |-> "Assign", name |-> ctl.stmt.name])
  /\ prev' = Snap("ExecAssign")
  /\ UNCHANGED <<scopes, rng_state, out>>

AssignValue ==
  /\ OnVal("Assign")
  /\ scopes' = set_var(scopes, Top.name, ctl.v)
  /\ ctl' = Res(None)
  /\ stack' = Popped
  /\ prev' = Snap("AssignValue")
  /\ UNCHANGED <<rng_state, out>>

\* AugAssign that stores the unset value back, as IncDec does
AugAssignNoop_binds ==
  /\ AtExec("AugAssign")
  /\ get_var(scopes, ctl.stmt.name) = Nothing
  /\ scopes' = set_var(scopes, ctl.stmt.name, Nothing)
  /\ ctl' = Res(None)
  /\ prev' = Snap("AugAssignNoop")
  /\ UNCHANGED <<rng_state, out, stack>>

\* `if current_val == Value::Nothing { return None; }`
AugAssignNoop ==
  /\ AtExec("AugAssign")
  /\ get_var(scopes, ctl.stmt.name) = Nothing
  /\ ctl' = Res(None)
  /\ prev' = Snap("AugAssignNoop")
  /\ UNCHANGED <<scopes, rng_state, out, stack>>

AugAssignEval ==
  /\ AtExec("AugAssign")
  /\ get_var(scopes, ctl.stmt.name) # Nothing
  /\ ctl' = Eval(ctl.stmt.e)
  /\ stack' = Push([f |-> "AugAssign", name |-> ctl.stmt.name, op |-> ctl.stmt.op, current_val |-> get_var(scopes, ctl.stmt.name)])
  /\ prev' = Snap("AugAssignEval")
  /\ UNCHANGED <<scopes, rng_state, out>>

AugAssignApply ==
  /\ OnVal("AugAssign")
  /\ scopes' = set_var(scopes, Top.name, apply_op(Top.current_val, Top.op, ctl.v))
  /\ ctl' = Res(None)
  /\ stack' = Popped
  /\ prev' = Snap("AugAssignApply")
  /\ UNCHANGED <<rng_state, out>>

\* An IncDec that returns early on Nothing, as AugAssign does
ExecIncDec_guarded ==
  /\ AtExec("IncDec")
  /\ LET current_val == get_var(scopes, ctl.stmt.name)
         new_val == CASE ctl.stmt.op = "++" -> apply_op(current_val, "+", Number(1))
                      [] ctl.stmt.op = "--" -> apply_op(current_val, "-", Number(1))
                      [] OTHER -> current_val
     IN scopes' = IF current_val = Nothing THEN scopes ELSE set_var(scopes, ctl.stmt.name, new_val)
  /\ ctl' = Res(None)
  /\ prev' = Snap("ExecIncDec")
  /\ UNCHANGED <<rng_state, out, stack>>

ExecIncDec ==
  /\ AtExec("IncDec")
  /\ LET current_val == get_var(scopes, ctl.stmt.name)
         new_val == CASE ctl.stmt.op = "++" -> apply_op(current_val, "+", Number(1))
                      [] ctl.stmt.op = "--" -> apply_op(current_val, "-", Number(1))
                      [] OTHER -> current_val
     IN scopes' = set_var(scopes, ctl.stmt.name, new_val)
  /\ ctl' = Res(None)
  /\ prev' = Snap("ExecIncDec")
  /\ UNCHANGED <<rng_state, out, stack>>

ExecIf ==
  /\ AtExec("If")
  /\ ctl' = Eval(ctl.stmt.cond)
  /\ stack' = Push([f |-> "If", stmt |-> ctl.stmt, j |-> 0])
  /\ prev' = Snap("ExecIf")
  /\ UNCHANGED <<scopes, rng_state, out>>

\* An If that takes every value but Bool(false) and Nothing for true
IfCond_truthy ==
  /\ OnVal("If")
  /\ IF ctl.v \notin {Bool(FALSE), Nothing}
     THEN /\ ctl' = Run(IF Top.j = 0 THEN Top.stmt.then_block ELSE Top.stmt.else_ifs[Top.j][2])
          /\ stack' = Popped
     ELSE IF Top.j < Len(Top.stmt.else_ifs)
     THEN /\ ctl' = Eval(Top.stmt.else_ifs[Top.j + 1][1])
          /\ stack' = Replace([Top EXCEPT !.j = @ + 1])
     ELSE /\ ctl' = Run(Top.stmt.else_block)
          /\ stack' = Popped
  /\ prev' = Snap("IfCond")
  /\ UNCHANGED <<scopes, rng_state, out>>

\* The condition of the if (j = 0) or of the j-th elif came back
IfCond ==
  /\ OnVal("If")
  /\ IF ctl.v = Bool(TRUE)
     THEN /\ ctl' = Run(IF Top.j = 0 THEN Top.stmt.then_block ELSE Top.stmt.else_ifs[Top.j][2])
          /\ stack' = Popped
     ELSE IF Top.j < Len(Top.stmt.else_ifs)
     THEN /\ ctl' = Eval(Top.stmt.else_ifs[Top.j + 1][1])
          /\ stack' = Replace([Top EXCEPT !.j = @ + 1])
     ELSE /\ ctl' = Run(Top.stmt.else_block)
          /\ stack' = Popped
  /\ prev' = Snap("IfCond")
  /\ UNCHANGED <<scopes, rng_state, out>>

ExecWhile ==
  /\ AtExec("While")
  /\ ctl' = Eval(ctl.stmt.cond)
  /\ stack' = Push([f |-> "While", cond |-> ctl.stmt.cond, body |-> ctl.stmt.body])
  /\ prev' = Snap("ExecWhile")
  /\ UNCHANGED <<scopes, rng_state, out>>

\* `while matches!(self.eval_expr(cond), Value::Bool(true))`
WhileCond ==
  /\ OnVal("While")
  /\ IF ctl.v = Bool(TRUE)
     THEN ctl' = Run(Top.body) /\ stack' = stack
     ELSE ctl' = Res(None) /\ stack' = Popped
  /\ prev' = Snap("WhileCond")
  /\ UNCHANGED <<scopes, rng_state, out>>

\* A While that drops the body's Some(v) and tests the condition again
WhileBody_continue ==
  /\ OnRes("While")
  /\ ctl' = Eval(Top.cond)
  /\ stack' = stack
  /\ prev' = Snap("WhileBody")
  /\ UNCHANGED <<scopes, rng_state, out>>

\* `if let Some(v) = self.run_block(body) { return Some(v); }`
WhileBody ==
  /\ OnRes("While")
  /\ IF ctl.r # None
     THEN ctl' = ctl /\ stack' = Popped
     ELSE ctl' = Eval(Top.cond) /\ stack' = stack
  /\ prev' = Snap("WhileBody")
  /\ UNCHANGED <<scopes, rng_state, out>>

ExecFor ==
  /\ AtExec("For")
  /\ ctl' = Eval(ctl.stmt.list_expr)
  /\ stack' = Push([f |-> "For", var |-> ctl.stmt.var, body |-> ctl.stmt.body, items |-> << >>, i |-> 0])
  /\ prev' = Snap("ExecFor")
  /\ UNCHANGED <<scopes, rng_state, out>>

\* A For that binds its variable in the current (last) scope whatever the
\* scopes under it hold
ForIter_local ==
  /\ OnVal("For")
  /\ IF ctl.v.t = "List" /\ Len(ctl.v.items) > 0
     THEN /\ scopes' = insert_last(scopes, Top.var, ctl.v.items[1])
          /\ ctl' = Run(Top.body)
          /\ stack' = Replace([Top EXCEPT !.items = ctl.v.items, !.i = 1])
     ELSE /\ scopes' = scopes
          /\ ctl' = Res(None)
          /\ stack' = Popped
  /\ prev' = Snap("ForIter")
  /\ UNCHANGED <<rng_state, out>>

\* `if let Value::List(items) = self.eval_expr(list_expr)`, and the first item
ForIter ==
  /\ OnVal("For")
  /\ IF ctl.v.t = "List" /\ Len(ctl.v.items) > 0
     THEN /\ scopes' = set_var(scopes, Top.var, ctl.v.items[1])
          /\ ctl' = Run(Top.body)
          /\ stack' = Replace([Top EXCEPT !.items = ctl.v.items, !.i = 1])
     ELSE /\ scopes' = scopes
          /\ ctl' = Res(None)
          /\ stack' = Popped
  /\ prev' = Snap("ForIter")
  /\ UNCHANGED <<rng_state, out>>

\* `if let Some(v) = self.run_block(body) { return Some(v); }`, else the next item
ForBody ==
  /\ OnRes("For")
  /\ IF ctl.r # None
     THEN /\ scopes' = scopes
          /\ ctl' = ctl
          /\ stack' = Popped
     ELSE IF Top.i < Len(Top.items)
     THEN /\ scopes' = set_var(scopes, Top.var, Top.items[Top.i + 1])
          /\ ctl' = Run(Top.body)
          /\ stack' = Replace([Top EXCEPT !.i = @ + 1])
     ELSE /\ scopes' = scopes
          /\ ctl' = Res(None)
          /\ stack' = Popped
  /\ prev' = Snap("ForBody")
  /\ UNCHANGED <<rng_state, out>>

ExecFunctionDef ==
  /\ AtExec("FunctionDef")
  /\ scopes' = insert_last(scopes, ctl.stmt.name, Function(ctl.stmt.params, ctl.stmt.body))
  /\ ctl' = Res(None)
  /\ prev' = Snap("ExecFunctionDef")
  /\ UNCHANGED <<rng_state, out, stack>>

ExecQuickFunctionDef ==
  /\ AtExec("QuickFunctionDef")
  /\ scopes' = insert_last(scopes, ctl.stmt.name, Function(ctl.stmt.params, <<Return(ctl.stmt.e)>>))
  /\ ctl' = Res(None)
  /\ prev' = Snap("ExecQuickFunctionDef")
  /\ UNCHANGED <<rng_state, out, stack>>

ExecFunctionCall ==
  /\ AtExec("FunctionCall")
  /\ ctl' = EvalArgs(ctl.stmt.args)
  /\ stack' = Push([f |-> "CallStmt", name |-> ctl.stmt.name, args |-> ctl.stmt.args, mutates |-> ctl.stmt.mutates])
  /\ prev' = Snap("ExecFunctionCall")
  /\ UNCHANGED <<scopes, rng_state, out>>

\* `let result = self.call_function(name, vals, *mutates);`
CallStmtDispatch ==
  /\ OnVals("CallStmt")
  /\ ctl' = Call(Top.name, ctl.vs, Top.mutates)
  /\ stack' = Replace([f |-> "CallStmtRet", args |-> Top.args, mutates |-> Top.mutates])
  /\ prev' = Snap("CallStmtDispatch")
  /\ UNCHANGED <<scopes, rng_state, out>>

\* A write-back that does not look at the `*` flag
WritesBack_always(mutates, args) == Len(args) > 0 /\ args[1].ex = "Variable"

\* `if *mutates { if let Some(Expr::Variable(var_name)) = args.first() {..} }`
WritesBack(mutates, args) == mutates /\ Len(args) > 0 /\ args[1].ex = "Variable"

WriteBackStmt ==
  /\ OnVal("CallStmtRet")
  /\ scopes' = IF WritesBack(Top.mutates, Top.args) THEN set_var(scopes, Top.args[1].name, ctl.v) ELSE scopes
  /\ ctl' = Res(None)
  /\ stack' = Popped
  /\ prev' = Snap("WriteBackStmt")
  /\ UNCHANGED <<rng_state, out>>

ExecReturn ==
  /\ AtExec("Return")
  /\ ctl' = Eval(ctl.stmt.e)
  /\ stack' = Push([f |-> "Return"])
  /\ prev' = Snap("ExecReturn")
  /\ UNCHANGED <<scopes, rng_state, out>>

\* `Some(self.eval_expr(expr))`
ReturnValue ==
  /\ OnVal("Return")
  /\ ctl' = Res(Some(ctl.v))
  /\ stack' = Popped
  /\ prev' = Snap("ReturnValue")
  /\ UNCHANGED <<scopes, rng_state, out>>

(***************************************************************************)
(* eval_expr                                                               *)
(***************************************************************************)
EvalLiteral ==
  /\ ctl.m = "eval"
  /\ ctl.e.ex \in {"Number", "Text", "Bool"}
  /\ ctl' = Val(CASE ctl.e.ex = "Number" -> Number(ctl.e.n)
                  [] ctl.e.ex = "Text" -> Text(ctl.e.s)
                  [] ctl.e.ex = "Bool" -> Bool(ctl.e.b))
  /\ prev' = Snap("EvalLiteral")
  /\ UNCHANGED <<scopes, rng_state, out, stack>>

EvalVariable ==
  /\ AtEval("Variable")
  /\ ctl' = Val(get_var(scopes, ctl.e.name))
  /\ prev' = Snap("EvalVariable")
  /\ UNCHANGED <<scopes, rng_state, out, stack>>

EvalList ==
  /\ AtEval("List")
  /\ ctl' = EvalArgs(ctl.e.items)
  /\ stack' = Push([f |-> "List"])
  /\ prev' = Snap("EvalList")
  /\ UNCHANGED <<scopes, rng_state, out>>

ListValue ==
  /\ OnVals("List")
  /\ ctl' = Val(List(ctl.vs))
  /\ stack' = Popped
  /\ prev' = Snap("ListValue")
  /\ UNCHANGED <<scopes, rng_state, out>>

EvalIndex ==
  /\ AtEval("Index")
  /\ ctl' = Eval(ctl.e.list_expr)
  /\ stack' = Push([f |-> "IndexList", index_expr |-> ctl.e.index_expr])
  /\ prev' = Snap("EvalIndex")
  /\ UNCHANGED <<scopes, rng_state, out>>

IndexListValue ==
  /\ OnVal("IndexList")
  /\ ctl' = Eval(Top.index_expr)
  /\ stack' = Replace([f |-> "IndexIndex", list_val |-> ctl.v])
  /\ prev' = Snap("IndexListValue")
  /\ UNCHANGED <<scopes, rng_state, out>>

\* items[actual_idx] when the pair is (List, Number) and the index is in range
index_value(list_val, index_val) ==
  IF list_val.t = "List" /\ index_val.t = "Number"
  THEN LET i == index_val.n
           actual_idx == IF i < 0 THEN Len(list_val.items) + i ELSE i
       IN IF actual_idx >= 0 /\ actual_idx < Len(list_val.items)
          THEN list_val.items[actual_idx + 1]
          ELSE Nothing
  ELSE Nothing

IndexValue ==
  /\ OnVal("IndexIndex")
  /\ ctl' = Val(index_value(Top.list_val, ctl.v))
  /\ stack' = Popped
  /\ prev' = Snap("IndexValue")
  /\ UNCHANGED <<scopes, rng_state, out>>

EvalBinaryOp ==
  /\ AtEval("BinaryOp")
  /\ ctl' = Eval(ctl.e.left)
  /\ stack' = Push([f |-> "BinLeft", op |-> ctl.e.op, right |-> ctl.e.right])
  /\ prev' = Snap("EvalBinaryOp")
  /\ UNCHANGED <<scopes, rng_state, out>>

BinLeft ==
  /\ OnVal("BinLeft")
  /\ ctl' = Eval(Top.right)
  /\ stack' = Replace([f |-> "BinRight", op |-> Top.op, l |-> ctl.v])
  /\ prev' = Snap("BinLeft")
  /\ UNCHANGED <<scopes, rng_state, out>>

BinRight ==
  /\ OnVal("BinRight")
  /\ ctl' = Val(apply_op(Top.l, Top.op, ctl.v))
  /\ stack' = Popped
  /\ prev' = Snap("BinRight")
  /\ UNCHANGED <<scopes, rng_state, out>>

EvalFunctionCall ==
  /\ AtEval("FunctionCall")
  /\ ctl' = EvalArgs(ctl.e.args)
  /\ stack' = Push([f |-> "CallExpr", name |-> ctl.e.name, args |-> ctl.e.args, mutates |-> ctl.e.mutates])
  /\ prev' = Snap("EvalFunctionCall")
  /\ UNCHANGED <<scopes, rng_state, out>>

\* `let result = self.call_function(name, arg_vals, *mutates);`
CallExprDispatch ==
  /\ OnVals("CallExpr")
  /\ ctl' = Call(Top.name, ctl.vs, Top.mutates)
  /\ stack' = Replace([f |-> "CallExprRet", args |-> Top.args, mutates |-> Top.mutates])
  /\ prev' = Snap("CallExprDispatch")
  /\ UNCHANGED <<scopes, rng_state, out>>

WriteBackExpr ==
  /\ OnVal("CallExprRet")
  /\ scopes' = IF WritesBack(Top.mutates, Top.args) THEN set_var(scopes, Top.args[1].name, ctl.v) ELSE scopes
  /\ ctl' = Val(ctl.v)
  /\ stack' = Popped
  /\ prev' = Snap("WriteBackExpr")
  /\ UNCHANGED <<rng_state, out>>

\* `.iter().map(|e| self.eval_expr(e)).collect()`: the expressions in order
ArgsBegin ==
  /\ ctl.m = "args"
  /\ IF Len(ctl.exprs) = 0
     THEN ctl' = Vals(<< >>) /\ stack' = stack
     ELSE ctl' = Eval(ctl.exprs[1]) /\ stack' = Push([f |-> "Args", exprs |-> ctl.exprs, vals |-> << >>])
  /\ prev' = Snap("ArgsBegin")
  /\ UNCHANGED <<scopes, rng_state, out>>

ArgsNext ==
  /\ OnVal("Args")
  /\ LET vals == Append(Top.vals, ctl.v)
     IN IF Len(vals) < Len(Top.exprs)
        THEN ctl' = Eval(Top.exprs[Len(vals) + 1]) /\ stack' = Replace([Top EXCEPT !.vals = vals])
        ELSE ctl' = Vals(vals) /\ stack' = Popped
  /\ prev' = Snap("ArgsNext")
  /\ UNCHANGED <<scopes, rng_state, out>>

(***************************************************************************)
(* call_function                                                           *)
(***************************************************************************)
\* A `match name` that looks the name up in the scopes before the built-in arms
dispatch_user_first(scps, name) ==
  IF get_var(scps, name).t = "Function" THEN "function"
  ELSE IF name \in BuiltinNames THEN "builtin"
  ELSE "nothing"

\* The arm `match name` takes: the built-in arms come before `_`.
dispatch(scps, name) ==
  IF name \in BuiltinNames THEN "builtin"
  ELSE IF get_var(scps, name).t = "Function" THEN "function"
  ELSE "nothing"

\* A built-in arm that keeps its result in a variable of the current scope
CallBuiltin_binds ==
  /\ ctl.m = "call"
  /\ dispatch(scopes, ctl.name) = "builtin"
  /\ LET r == call_builtin([scopes |-> scopes, rng_state |-> rng_state], ctl.name, ctl.args)
     IN /\ ctl' = Val(r.ret)
        /\ scopes' = insert_last(r.self.scopes, "it", r.ret)
        /\ rng_state' = r.self.rng_state
  /\ prev' = Snap("CallBuiltin")
  /\ UNCHANGED <<out, stack>>

CallBuiltin ==
  /\ ctl.m = "call"
  /\ dispatch(scopes, ctl.name) = "builtin"
  /\ LET r == call_builtin([scopes |-> scopes, rng_state |-> rng_state], ctl.name, ctl.args)
     IN /\ ctl' = Val(r.ret)
        /\ scopes' = r.self.scopes
        /\ rng_state' = r.self.rng_state
  /\ prev' = Snap("CallBuiltin")
  /\ UNCHANGED <<out, stack>>

\* `self.scopes.push(local_scope); let result = self.run_block(&body);`
CallFunction ==
  /\ ctl.m = "call"
  /\ dispatch(scopes, ctl.name) = "function"
  /\ LET fn_val == get_var(scopes, ctl.name)
     IN /\ scopes' = Append(scopes, local_scope(fn_val.params, ctl.args))
        /\ ctl' = Run(fn_val.body)
        /\ stack' = Push([f |-> "Call", params |-> fn_val.params, depth |-> Len(scopes)])
  /\ prev' = Snap("CallFunction")
  /\ UNCHANGED <<rng_state, out>>

\* A return from a Function that leaves the local scope on the stack
CallReturn_keep ==
  /\ OnRes("Call")
  /\ scopes' = scopes
  /\ ctl' = Val(IF ctl.r = None THEN Nothing ELSE ctl.r[1])
  /\ stack' = Popped
  /\ prev' = Snap("CallReturn")
  /\ UNCHANGED <<rng_state, out>>

\* `self.scopes.pop(); return result.unwrap_or(Value::Nothing);`
CallReturn ==
  /\ OnRes("Call")
  /\ scopes' = SubSeq(scopes, 1, Len(scopes) - 1)
  /\ ctl' = Val(IF ctl.r = None THEN Nothing ELSE ctl.r[1])
  /\ stack' = Popped
  /\ prev' = Snap("CallReturn")
  /\ UNCHANGED <<rng_state, out>>

\* The name is no built-in and is not bound to a Function
CallNothing ==
  /\ ctl.m = "call"
  /\ dispatch(scopes, ctl.name) = "nothing"
  /\ ctl' = Val(Nothing)
  /\ prev' = Snap("CallNothing")
  /\ UNCHANGED <<scopes, rng_state, out, stack>>

(***************************************************************************)
(* The programs run: the statement lists parse() hands to run_block, each  *)
(* shown as its source text.  k ranges over 0..MaxParam.                     *)
(***************************************************************************)
MaxParam == 2

V(name) == Variable(name)

N(n) == ENumber(n)

\*   fact(n) =>
\*     ? n <= 1 {
\*       -> 1
\*     }
\*     -> n * fact(n - 1)
\*   }
\*   fact(k)
ProgFact(k) ==
  << FunctionDef("fact", <<"n">>,
       << If(BinaryOp(V("n"), "<=", N(1)), <<Return(N(1))>>, << >>, << >>),
          Return(BinaryOp(V("n"), "*", EFunctionCall("fact", <<BinaryOp(V("n"), "-", N(1))>>, FALSE))) >>),
     SPrint(EFunctionCall("fact", <<N(k)>>, FALSE)) >>

\*   find(xs t) =>
\*     >> x xs {
\*       i = 0
\*       @ i < 2 {
\*         ? x + i == t {
\*           -> x
\*         }
\*         i++
\*         "w"
\*       }
\*       "f"
\*     }
\*     "e"
\*   }
\*   r = find([1 3] k)
\*   r
\*   "after"
ProgFind(k) ==
  << FunctionDef("find", <<"xs", "t">>,
       << For("x", V("xs"),
            << Assign("i", N(0)),
               While(BinaryOp(V("i"), "<", N(2)),
                 << If(BinaryOp(BinaryOp(V("x"), "+", V("i")), "==", V("t")), <<Return(V("x"))>>, << >>, << >>),
                    IncDec("i", "++"),
                    SPrint(EText(<<"w">>)) >>),
               SPrint(EText(<<"f">>)) >>),
          SPrint(EText(<<"e">>)) >>),
     Assign("r", EFunctionCall("find", <<EList(<<N(1), N(3)>>), N(k)>>, FALSE)),
     SPrint(V("r")),
     SPrint(EText(<<"a">>)) >>

\*   n = 0
\*   @ yes {
\*     >> x [1 2] {
\*       n++
\*       ? n > k {
\*         -> n
\*       }
\*       n
\*     }
\*   }
\*   "u"
ProgTop(k) ==
  << Assign("n", N(0)),
     While(EBool(TRUE),
       << For("x", EList(<<N(1), N(2)>>),
            << IncDec("n", "++"),
               If(BinaryOp(V("n"), ">", N(k)), <<Return(V("n"))>>, << >>, << >>),
               SPrint(V("n")) >>) >>),
     SPrint(EText(<<"u">>)) >>

\*   xs = [3 1 2]
\*   <>(xs)*
\*   inc(a) ~> a + 1
\*   y = k
\*   z = inc(y)* + 1
\*   inc(5)*
\*   seven() ~> 7
\*   seven()*
\*   g(q) =>
\*     q = 1
\*   }
\*   w = 3
\*   g(w)*
\*   t = ^([1] y)*
\*   wrap(xs) ~> inc(z)*
\*   wrap(z)*
\*   nope(y)*
\*   inc(y)
ProgMut(k) ==
  << Assign("xs", EList(<<N(3), N(1), N(2)>>)),
     FunctionCall("<>", <<V("xs")>>, TRUE),
     QuickFunctionDef("inc", <<"a">>, BinaryOp(V("a"), "+", N(1))),
     Assign("y", N(k)),
     Assign("z", BinaryOp(EFunctionCall("inc", <<V("y")>>, TRUE), "+", N(1))),
     FunctionCall("inc", <<N(5)>>, TRUE),
     QuickFunctionDef("seven", << >>, N(7)),
     FunctionCall("seven", << >>, TRUE),
     FunctionDef("g", <<"q">>, <<Assign("q", N(1))>>),
     Assign("w", N(3)),
     FunctionCall("g", <<V("w")>>, TRUE),
     Assign("t", EFunctionCall("^", <<EList(<<N(1)>>), V("y")>>, TRUE)),
     QuickFunctionDef("wrap", <<"xs">>, EFunctionCall("inc", <<V("z")>>, TRUE)),
     FunctionCall("wrap", <<V("z")>>, TRUE),
     FunctionCall("nope", <<V("y")>>, TRUE),
     SPrint(EFunctionCall("inc", <<V("y")>>, FALSE)) >>

\*   b = 5
\*   v = k
\*   f(a b) =>
\*     b = a
\*     c = b + 1
\*     v = c
\*     -> b
\*   }
\*   f(1)
\*   f(1 2)
\*   h(p q) ~> q
\*   q = 9
\*   h(1)
\*   h(1 2)
\*   m(z) ~> z
\*   m()
\*   v(xs) =>
\*     -> 7
\*   }
\*   v([1 2])
\*   b
ProgScope(k) ==
  << Assign("b", N(5)),
     Assign("v", N(k)),
     FunctionDef("f", <<"a", "b">>,
       << Assign("b", V("a")),
          Assign("c", BinaryOp(V("b"), "+", N(1))),
          Assign("v", V("c")),
          Return(V("b")) >>),
     SPrint(EFunctionCall("f", <<N(1)>>, FALSE)),
     SPrint(EFunctionCall("f", <<N(1), N(2)>>, FALSE)),
     QuickFunctionDef("h", <<"p", "q">>, V("q")),
     Assign("q", N(9)),
     SPrint(EFunctionCall("h", <<N(1)>>, FALSE)),
     SPrint(EFunctionCall("h", <<N(1), N(2)>>, FALSE)),
     QuickFunctionDef("m", <<"z">>, V("z")),
     SPrint(EFunctionCall("m", << >>, FALSE)),
     FunctionDef("v", <<"xs">>, <<Return(N(7))>>),
     SPrint(EFunctionCall("v", <<EList(<<N(1), N(2)>>)>>, FALSE)),
     SPrint(V("b")) >>

\*   m += 1
\*   m
\*   n = 2
\*   n += k
\*   n *= n
\*   inc(a) ~> a + 1
\*   n += inc(n)*
\*   s = "a"
\*   s += "b"
\*   s -= 1
\*   s += "c"
\*   bump(d) =>
\*     total += d
\*     lost += inc(total)*
\*     d /= 1
\*   }
\*   total = 0
\*   bump(k)
\*   total
\*   n--
ProgAug(k) ==
  << AugAssign("m", "+", N(1)),
     SPrint(V("m")),
     Assign("n", N(2)),
     AugAssign("n", "+", N(k)),
     AugAssign("n", "*", V("n")),
     QuickFunctionDef("inc", <<"a">>, BinaryOp(V("a"), "+", N(1))),
     AugAssign("n", "+", EFunctionCall("inc", <<V("n")>>, TRUE)),
     Assign("s", EText(<<"a">>)),
     AugAssign("s", "+", EText(<<"b">>)),
     AugAssign("s", "-", N(1)),
     AugAssign("s", "+", EText(<<"c">>)),
     FunctionDef("bump", <<"d">>,
       << AugAssign("total", "+", V("d")),
          AugAssign("lost", "+", EFunctionCall("inc", <<V("total")>>, TRUE)),
          AugAssign("d", "/", N(1)) >>),
     Assign("total", N(0)),
     FunctionCall("bump", <<N(k)>>, FALSE),
     SPrint(V("total")),
     IncDec("n", "--") >>

\*   xs = [1 2 3]
\*   xs[0]
\*   xs[k - 2]
\*   xs[5]
\*   >> e 5 {
\*     e
\*   }
\*   ? no {
\*     "a"
\*   }
\*   ?? k == 1 {
\*     "b"
\*   }
\*   ?? {
\*     "c"
\*   }
\*   @ no {
\*     "a"
\*   }
\*   j++
\*   t = "a,b"
\*   |(t ",")
\*   &(|(t ",") "-")
\*   ~($(k)) + #(xs)
\*   ?=(k)
\*   yes == !(no)
ProgMisc(k) ==
  << Assign("xs", EList(<<N(1), N(2), N(3)>>)),
     SPrint(Index(V("xs"), N(0))),
     SPrint(Index(V("xs"), BinaryOp(N(k), "-", N(2)))),
     SPrint(Index(V("xs"), N(5))),
     For("e", N(5), <<SPrint(V("e"))>>),
     If(EBool(FALSE), <<SPrint(EText(<<"a">>))>>,
        << <<BinaryOp(N(k), "==", N(1)), <<SPrint(EText(<<"b">>))>>>> >>,
        <<SPrint(EText(<<"c">>))>>),
     While(EBool(FALSE), <<SPrint(EText(<<"a">>))>>),
     IncDec("j", "++"),
     Assign("t", EText(<<"a", ",", "b">>)),
     SPrint(EFunctionCall("|", <<V("t"), EText(<<",">>)>>, FALSE)),
     SPrint(EFunctionCall("&", <<EFunctionCall("|", <<V("t"), EText(<<",">>)>>, FALSE), EText(<<"-">>)>>, FALSE)),
     SPrint(BinaryOp(EFunctionCall("~", <<EFunctionCall("$", <<N(k)>>, FALSE)>>, FALSE), "+", EFunctionCall("#", <<V("xs")>>, FALSE))),
     SPrint(EFunctionCall("?=", <<N(k)>>, FALSE)),
     SPrint(BinaryOp(EBool(TRUE), "==", EFunctionCall("!", <<EBool(FALSE)>>, FALSE))) >>

\*   i = 10
\*   sum(xs) =>
\*     t = 0
\*     >> i xs {
\*       t += i
\*     }
\*     >> j xs {
\*       t += 0
\*     }
\*     >> e t {
\*       "never"
\*     }
\*     -> t
\*   }
\*   sum([1 k])
\*   i
\*   j
\*   c = 0
\*   inc(a) ~> a + 1
\*   ? 1 {
\*     "n"
\*   }
\*   ?? "t" {
\*     "t"
\*   }
\*   ?? [yes] {
\*     "l"
\*   }
\*   ?? nope {
\*     "x"
\*   }
\*   ?? inc {
\*     "f"
\*   }
\*   ?? no {
\*     "b"
\*   }
\*   ?? k == 1 {
\*     "one"
\*   }
\*   ?? inc(c)* == 1 {
\*     "yes"
\*   }
\*   ?? inc(c)* == 2 {
\*     "never"
\*   }
\*   ?? {
\*     "else"
\*   }
\*   c
\*   ? k == 5 {
\*     "five"
\*   }
\*   ?? {
\*     "else"
\*   }
\*   r = 0
\*   @ r < 3 {
\*     ?=(k)
\*     r++
\*   }
\*   ?=(0 - 1)
ProgFlow(k) ==
  << Assign("i", N(10)),
     FunctionDef("sum", <<"xs">>,
       << Assign("t", N(0)),
          For("i", V("xs"), <<AugAssign("t", "+", V("i"))>>),
          For("j", V("xs"), <<AugAssign("t", "+", N(0))>>),
          For("e", V("t"), <<SPrint(EText(<<"n", "e", "v", "e", "r">>))>>),
          Return(V("t")) >>),
     SPrint(EFunctionCall("sum", <<EList(<<N(1), N(k)>>)>>, FALSE)),
     SPrint(V("i")),
     SPrint(V("j")),
     Assign("c", N(0)),
     QuickFunctionDef("inc", <<"a">>, BinaryOp(V("a"), "+", N(1))),
     If(N(1), <<SPrint(EText(<<"n">>))>>,
        << <<EText(<<"t">>), <<SPrint(EText(<<"t">>))>>>>,
           <<EList(<<EBool(TRUE)>>), <<SPrint(EText(<<"l">>))>>>>,
           <<V("nope"), <<SPrint(EText(<<"x">>))>>>>,
           <<V("inc"), <<SPrint(EText(<<"f">>))>>>>,
           <<EBool(FALSE), <<SPrint(EText(<<"b">>))>>>>,
           <<BinaryOp(N(k), "==", N(1)), <<SPrint(EText(<<"o", "n", "e">>))>>>>,
           <<BinaryOp(EFunctionCall("inc", <<V("c")>>, TRUE), "==", N(1)), <<SPrint(EText(<<"y", "e", "s">>))>>>>,
           <<BinaryOp(EFunctionCall("inc", <<V("c")>>, TRUE), "==", N(2)), <<SPrint(EText(<<"n", "e", "v", "e", "r">>))>>>> >>,
        <<SPrint(EText(<<"e", "l", "s", "e">>))>>),
     SPrint(V("c")),
     If(BinaryOp(N(k), "==", N(5)), <<SPrint(EText(<<"f", "i", "v", "e">>))>>, << >>,
        <<SPrint(EText(<<"e", "l", "s", "e">>))>>),
     Assign("r", N(0)),
     While(BinaryOp(V("r"), "<", N(3)),
       << SPrint(EFunctionCall("?=", <<N(k)>>, FALSE)),
          IncDec("r", "++") >>),
     SPrint(EFunctionCall("?=", <<BinaryOp(N(0), "-", N(1))>>, FALSE)) >>

\*   g = k
\*   show() ~> g
\*   outer(g) ~> show()
\*   show()
\*   outer(7)
\*   g = k + 1
\*   show()
\*   setter() =>
\*     w = 1
\*     fresh = 2
\*   }
\*   caller(w) =>
\*     setter()
\*     -> w
\*   }
\*   caller(0)
\*   w
\*   fresh
\*   u++
\*   bo = yes
\*   bo--
\*   l = [1]
\*   l++
\*   show++
\*   tx = "a"
\*   tx++
\*   tx
\*   n = k
\*   n++
\*   n--
\*   n--
\*   bump() =>
\*     n++
\*     loc++
\*     lost += 1
\*     -> n
\*   }
\*   bump()
ProgDyn(k) ==
  << Assign("g", N(k)),
     QuickFunctionDef("show", << >>, V("g")),
     QuickFunctionDef("outer", <<"g">>, EFunctionCall("show", << >>, FALSE)),
     SPrint(EFunctionCall("show", << >>, FALSE)),
     SPrint(EFunctionCall("outer", <<N(7)>>, FALSE)),
     Assign("g", BinaryOp(N(k), "+", N(1))),
     SPrint(EFunctionCall("show", << >>, FALSE)),
     FunctionDef("setter", << >>, <<Assign("w", N(1)), Assign("fresh", N(2))>>),
     FunctionDef("caller", <<"w">>, <<SPrint(EFunctionCall("setter", << >>, FALSE)), Return(V("w"))>>),
     SPrint(EFunctionCall("caller", <<N(0)>>, FALSE)),
     SPrint(V("w")),
     SPrint(V("fresh")),
     IncDec("u", "++"),
     Assign("bo", EBool(TRUE)),
     IncDec("bo", "--"),
     Assign("l", EList(<<N(1)>>)),
     IncDec("l", "++"),
     IncDec("show", "++"),
     Assign("tx", EText(<<"a">>)),
     IncDec("tx", "++"),
     SPrint(V("tx")),
     Assign("n", N(k)),
     IncDec("n", "++"),
     IncDec("n", "--"),
     IncDec("n", "--"),
     FunctionDef("bump", << >>,
       << IncDec("n", "++"),
          IncDec("loc", "++"),
          AugAssign("lost", "+", N(1)),
          Return(V("n")) >>),
     SPrint(EFunctionCall("bump", << >>, FALSE)) >>

\*   s = "a,b,c"
\*   |(s ",")
\*   &(|(s ",") "-")
ProgSplit ==
  << Assign("s", EText(<<"a", ",", "b", ",", "c">>)),
     SPrint(EFunctionCall("|", <<V("s"), EText(<<",">>)>>, FALSE)),
     SPrint(EFunctionCall("&", <<EFunctionCall("|", <<V("s"), EText(<<",">>)>>, FALSE), EText(<<"-">>)>>, FALSE)) >>

Programs ==
  UNION {{ProgFact(k), ProgFind(k), ProgTop(k), ProgMut(k), ProgScope(k), ProgAug(k), ProgMisc(k),
          ProgFlow(k), ProgDyn(k)} : k \in 0..MaxParam}
    \cup {ProgSplit}

\* Interpreter::new: the seed is a clock reading xor a hasher's output, or
\* 123456789 when that is 0; three of the non-zero seeds, one with the top
\* bit alone set.
Seeds == {ToBits(123456789), ToBits(1), [i \in 1..W |-> IF i = W THEN 1 ELSE 0]}

(***************************************************************************)
(* main: parse, Interpreter::new, run_block                                *)
(***************************************************************************)
Init ==
  /\ ctl \in {Run(p) : p \in Programs}
  /\ stack = << >>
  /\ scopes = <<HashMapNew>>
  /\ rng_state \in Seeds
  /\ out = << >>
  /\ prev = [act |-> "new", ctl |-> Halted, stack |-> << >>, scopes |-> <<HashMapNew>>, out |-> << >>, rng_state |-> rng_state]

Next ==
  \/ RunBlock \/ BlockNext \/ Halt
  \/ ExecPrint \/ PrintValue
  \/ ExecAssign \/ AssignValue
  \/ AugAssignNoop \/ AugAssignEval \/ AugAssignApply
  \/ ExecIncDec
  \/ ExecIf \/ IfCond
  \/ ExecWhile \/ WhileCond \/ WhileBody
  \/ ExecFor \/ ForIter \/ ForBody
  \/ ExecFunctionDef \/ ExecQuickFunctionDef
  \/ ExecFunctionCall \/ CallStmtDispatch \/ WriteBackStmt
  \/ ExecReturn \/ ReturnValue
  \/ EvalLiteral \/ EvalVariable
  \/ EvalList \/ ListValue
  \/ EvalIndex \/ IndexListValue \/ IndexValue
  \/ EvalBinaryOp \/ BinLeft \/ BinRight
  \/ EvalFunctionCall \/ CallExprDispatch \/ WriteBackExpr
  \/ ArgsBegin \/ ArgsNext
  \/ CallBuiltin \/ CallFunction \/ CallReturn \/ CallNothing

Spec == Init /\ [][Next]_vars

(***************************************************************************)
(* call_function on its own: one call of a built-in name, on argument      *)
(* vectors of every variant and scope stacks of several shapes             *)
(***************************************************************************)
MaxArity == 2

\* Values of each variant of enum Value
ArgValues ==
  { Number(0), Number(2), Text(<< >>), Text(<<"1", "2">>), Text(<<"a", ",", "b">>), Text(<<",">>),
    Bool(TRUE), Nothing, List(<< >>), List(<<Number(2), Number(1), Number(2)>>),
    List(<<Text(<<"b">>), Number(1), Bool(FALSE)>>),
    Function(<<"x">>, <<Return(Variable("x"))>>) }

RECURSIVE Vectors(_)
\* The Vec<Value> of length n over ArgValues
Vectors(n) == IF n = 0 THEN {<< >>} ELSE {Append(v, x) : v \in Vectors(n - 1), x \in ArgValues}

\* Scope stacks: the one of Interpreter::new, one with user bindings (a
\* built-in name among them), one inside an invocation
ScopeStacks ==
  { <<HashMapNew>>,
    <<insert(insert(HashMapNew, "it", Number(7)), "#", Function(<<"x">>, <<Return(Variable("x"))>>))>>,
    <<insert(HashMapNew, "x", List(<<Number(1)>>)), insert(HashMapNew, "x", Text(<<"a">>))>> }

MaxLen == 3

RECURSIVE ListsOver(_, _)
\* The Lists of at most n elements drawn from the set S
ListsOver(S, n) ==
  IF n = 0 THEN {List(<< >>)}
  ELSE ListsOver(S, n - 1) \cup {List(Append(l.items, x)) : l \in ListsOver(S, n - 1), x \in S}

\* The Lists handed to the sorts: all Numbers (0/0, a NaN, among them), or
\* all Texts, with repeated elements
SortLists ==
  ListsOver({Number(0 - 1), Number(2), Inexact(0, 0)}, MaxLen)
    \cup ListsOver({Text(<<"a">>), Text(<<"a", "b">>), Text(<<"b">>)}, MaxLen)

InitBuiltins ==
  /\ ctl \in {Call(name, args, FALSE) : name \in BuiltinNames, args \in UNION {Vectors(n) : n \in 0..MaxArity}}
               \cup {Call(name, <<xs>>, FALSE) : name \in {"++", "--"}, xs \in SortLists}
  /\ stack = << >>
  /\ scopes \in ScopeStacks
  /\ rng_state \in Seeds
  /\ out = << >>
  /\ prev = [act |-> "new", ctl |-> Halted, stack |-> << >>, scopes |-> scopes, out |-> << >>, rng_state |-> rng_state]

NextBuiltins == CallBuiltin

SpecBuiltins == InitBuiltins /\ [][NextBuiltins]_vars

(***************************************************************************)
(* parse: the lines of a program text to its statements.  ctl holds the    *)
(* running invocation of parse_lines (lines, the cursor *current shared by  *)
(* every invocation, and its own statements), stack the invocations that   *)
(* wait for a block, out the diagnostics printed.                          *)
(***************************************************************************)
\* `let x = v;` then F(x): v is computed once, before F uses it
Let(v, F(_)) == CHOOSE r \in {F(x) : x \in {v}} : TRUE

contains(s, pat) == \E i \in 1..Len(s) : IsPrefixAt(s, pat, i)

RECURSIVE trim(_)
trim(s) ==
  Let(s, LAMBDA v :
    IF Len(v) = 0 THEN v
    ELSE IF v[1] = " " THEN trim(Tail(v))
    ELSE IF v[Len(v)] = " " THEN trim(SubSeq(v, 1, Len(v) - 1))
    ELSE v)

RECURSIVE trim_end_matches(_, _)
trim_end_matches(s, c) ==
  Let(s, LAMBDA v : IF Len(v) > 0 /\ v[Len(v)] = c THEN trim_end_matches(SubSeq(v, 1, Len(v) - 1), c) ELSE v)

RECURSIVE to_string(_)
\* The String of a &str: the name a Statement or an Expr holds
to_string(s) == Let(s, LAMBDA v : IF Len(v) = 0 THEN "" ELSE v[1] \o to_string(Tail(v)))

\* parse_expr on an atom (a text with no operator, bracket, parenthesis or
\* quote, for which every earlier arm fails): its last four arms
parse_expr(s) ==
  Let(trim(s), LAMBDA t :
    IF parse_f64(t) # None THEN ENumber(parse_f64(t)[1])
    ELSE IF t \in {<<"y", "e", "s">>, <<"t", "r", "u", "e">>} THEN EBool(TRUE)
    ELSE IF t \in {<<"n", "o">>, <<"f", "a", "l", "s", "e">>} THEN EBool(FALSE)
    ELSE Variable(to_string(t)))

\* `line[n..].trim().trim_end_matches('{').trim()` parsed: the header of a block
header_expr(line, n) == parse_expr(trim(trim_end_matches(trim(SubSeq(line, n + 1, Len(line))), "{")))

\* `params_str.split_whitespace().map(|s| s.to_string()).collect()`
split_whitespace(s) ==
  Let(SelectSeq(split(s, <<" ">>), LAMBDA w : Len(w) > 0), LAMBDA words : [i \in 1..Len(words) |-> to_string(words[i])])

\* The name and the parameters of the `name(p q)` before the arrow of a
\* line, None without a `(`
signature(line, arrow) ==
  Let(trim(split(line, arrow)[1]), LAMBDA sig :
    IF ~contains(sig, <<"(">>) THEN None
    ELSE Let(CHOOSE i \in 1..Len(sig) : sig[i] = "(" /\ \A j \in 1..(i - 1) : sig[j] # "(", LAMBDA paren_idx :
           Some([name |-> to_string(trim(SubSeq(sig, 1, paren_idx - 1))),
                 params |-> split_whitespace(trim(trim_end_matches(SubSeq(sig, paren_idx + 1, Len(sig)), ")")))])))

\* parse_simple_statement on a line with no `=` and no `+?`: Return, IncDec,
\* or the Print of an atom; None for a line that starts with `=>` or `}`
parse_simple_statement(text) ==
  Let(trim(text), LAMBDA line :
    LET n == Len(line)
    IN IF IsPrefixAt(line, <<"-", ">">>, 1)
       THEN Some(Return(parse_expr(trim(SubSeq(line, IF IsPrefixAt(line, <<"-", ">", " ">>, 1) THEN 4 ELSE 3, n)))))
       ELSE IF n >= 2 /\ SubSeq(line, n - 1, n) = <<"+", "+">> /\ ~contains(line, <<"(">>)
       THEN Some(IncDec(to_string(trim(SubSeq(line, 1, n - 2))), "++"))
       ELSE IF n >= 2 /\ SubSeq(line, n - 1, n) = <<"-", "-">> /\ ~contains(line, <<"(">>)
       THEN Some(IncDec(to_string(trim(SubSeq(line, 1, n - 2))), "--"))
       ELSE IF ~IsPrefixAt(line, <<"=", ">">>, 1) /\ ~IsPrefixAt(line, <<"}">>, 1)
       THEN Some(SPrint(parse_expr(line)))
       ELSE None)

\* The branch of the loop of parse_lines that takes a line: its tests in
\* their order
branch(line) ==
  IF line = <<"}">> THEN "}"
  ELSE IF IsPrefixAt(line, <<"?", "?">>, 1) THEN "??"
  ELSE IF contains(line, <<"~", ">">>) /\ signature(line, <<"~", ">">>) # None THEN "~>"
  ELSE IF contains(line, <<"=", ">">>) /\ ~IsPrefixAt(line, <<"\"">>, 1) /\ signature(line, <<"=", ">">>) # None THEN "=>"
  ELSE IF IsPrefixAt(line, <<"@", " ">>, 1) THEN "@"
  ELSE IF IsPrefixAt(line, <<">", ">", " ">>, 1) /\ contains(trim(SubSeq(line, 4, Len(line))), <<" ">>) THEN ">>"
  ELSE IF IsPrefixAt(line, <<"?", " ">>, 1) /\ ~contains(line, <<":">>) THEN "?"
  ELSE "simple"

Parsing(lines, current, statements) == [m |-> "parse", lines |-> lines, current |-> current, statements |-> statements]

Parsed(lines, current, statements) == [m |-> "parsed", lines |-> lines, current |-> current, statements |-> statements]

\* `let line = lines[*current];`
Line == ctl.lines[ctl.current + 1]

AtLine(b) == ctl.m = "parse" /\ ctl.current < Len(ctl.lines) /\ branch(Line) = b

\* `*current += 1; let body = parse_lines(lines, current);` with the caller
\* left waiting as the frame fr
Block(fr) ==
  /\ ctl' = Parsing(ctl.lines, ctl.current + 1, << >>)
  /\ stack' = Push(fr)

\* A caller that keeps what the block of an orphan `??` returned
parse_lines_return_keep(stk, lines, current, body) ==
  IF Len(stk) = 0 THEN [ctl |-> Parsed(lines, current, body), stack |-> stk]
  ELSE LET fr == stk[Len(stk)]
           rest == SubSeq(stk, 1, Len(stk) - 1)
       IN [ctl |-> Parsing(lines, current, fr.statements \o body), stack |-> rest]

\* parse_lines returns body with the cursor at current: parse gets the
\* program; an orphan `??` drops the body; a FunctionDef, While or For is
\* pushed with it; an If takes it as its then, elif or else block and, unless
\* that was the else block, looks at the next line for `??` or `?? cond`
parse_lines_return(stk, lines, current, body) ==
  IF Len(stk) = 0 THEN [ctl |-> Parsed(lines, current, body), stack |-> stk]
  ELSE
    LET fr == stk[Len(stk)]
        rest == SubSeq(stk, 1, Len(stk) - 1)
        resume(stmts) == [ctl |-> Parsing(lines, current, stmts), stack |-> rest]
        chain(then_block, else_ifs) ==
          LET next_line == lines[current + 1]
              next_clean == trim(trim_end_matches(trim(next_line), "{"))
          IN IF current < Len(lines) /\ next_clean = <<"?", "?">>
             THEN [ctl |-> Parsing(lines, current + 1, << >>),
                   stack |-> Append(rest, [f |-> "else", statements |-> fr.statements, cond |-> fr.cond,
                                           then_block |-> then_block, else_ifs |-> else_ifs])]
             ELSE IF current < Len(lines) /\ IsPrefixAt(next_line, <<"?", "?", " ">>, 1)
             THEN [ctl |-> Parsing(lines, current + 1, << >>),
                   stack |-> Append(rest, [f |-> "elif", statements |-> fr.statements, cond |-> fr.cond,
                                           then_block |-> then_block, else_ifs |-> else_ifs,
                                           elif_cond |-> header_expr(next_line, 3)])]
             ELSE resume(Append(fr.statements, If(fr.cond, then_block, else_ifs, << >>)))
    IN CASE fr.f = "??" -> resume(fr.statements)
         [] fr.f = "=>" -> resume(Append(fr.statements, FunctionDef(fr.name, fr.params, body)))
         [] fr.f = "@" -> resume(Append(fr.statements, While(fr.cond, body)))
         [] fr.f = ">>" -> resume(Append(fr.statements, For(fr.var, fr.list_expr, body)))
         [] fr.f = "?" -> chain(body, << >>)
         [] fr.f = "elif" -> chain(fr.then_block, Append(fr.else_ifs, <<fr.elif_cond, body>>))
         [] fr.f = "else" -> resume(Append(fr.statements, If(fr.cond, fr.then_block, fr.else_ifs, body)))

\* A `}` that is passed over: the loop goes on with the next line
ParseClose_continue ==
  /\ AtLine("}")
  /\ IF Len(stack) = 0
     THEN ctl' = [ctl EXCEPT !.current = @ + 1] /\ stack' = stack
     ELSE LET r == parse_lines_return(stack, ctl.lines, ctl.current + 1, ctl.statements)
          IN ctl' = r.ctl /\ stack' = r.stack
  /\ prev' = Snap("ParseClose")
  /\ UNCHANGED <<scopes, rng_state, out>>

\* `if line == "}" { *current += 1; return statements; }`
ParseClose ==
  /\ AtLine("}")
  /\ LET r == parse_lines_return(stack, ctl.lines, ctl.current + 1, ctl.statements)
     IN ctl' = r.ctl /\ stack' = r.stack
  /\ prev' = Snap("ParseClose")
  /\ UNCHANGED <<scopes, rng_state, out>>

\* `while *current < lines.len()` fails: the statements are returned
ParseEnd ==
  /\ ctl.m = "parse"
  /\ ctl.current >= Len(ctl.lines)
  /\ LET r == parse_lines_return(stack, ctl.lines, ctl.current, ctl.statements)
     IN ctl' = r.ctl /\ stack' = r.stack
  /\ prev' = Snap("ParseEnd")
  /\ UNCHANGED <<scopes, rng_state, out>>

\* println! of the orphan `??` branch
OrphanedElse == <<"E", "r", "r", "o", "r", ":", " ", "U", "n", "e", "x", "p", "e", "c", "t", "e", "d", " ", "'", "?", "?", "'", " ", "w", "i", "t", "h", "o", "u", "t", " ", "m", "a", "t", "c", "h", "i", "n", "g", " ", "'", "?", "'", " ", "(", "O", "r", "p", "h", "a", "n", "e", "d", " ", "E", "l", "s", "e", ")">>

ParseOrphan ==
  /\ AtLine("??")
  /\ out' = Append(out, OrphanedElse)
  /\ Block([f |-> "??", statements |-> ctl.statements])
  /\ prev' = Snap("ParseOrphan")
  /\ UNCHANGED <<scopes, rng_state>>

ParseQuickFunctionDef ==
  /\ AtLine("~>")
  /\ \E sig \in {signature(Line, <<"~", ">">>)[1]}, expr \in {parse_expr(split(Line, <<"~", ">">>)[2])} :
        ctl' = Parsing(ctl.lines, ctl.current + 1, Append(ctl.statements, QuickFunctionDef(sig.name, sig.params, expr)))
  /\ prev' = Snap("ParseQuickFunctionDef")
  /\ UNCHANGED <<scopes, rng_state, out, stack>>

ParseFunctionDef ==
  /\ AtLine("=>")
  /\ \E sig \in {signature(Line, <<"=", ">">>)[1]} :
        Block([f |-> "=>", statements |-> ctl.statements, name |-> sig.name, params |-> sig.params])
  /\ prev' = Snap("ParseFunctionDef")
  /\ UNCHANGED <<scopes, rng_state, out>>

ParseWhile ==
  /\ AtLine("@")
  /\ Block([f |-> "@", statements |-> ctl.statements, cond |-> header_expr(Line, 2)])
  /\ prev' = Snap("ParseWhile")
  /\ UNCHANGED <<scopes, rng_state, out>>

ParseFor ==
  /\ AtLine(">>")
  /\ \E content \in {trim(SubSeq(Line, 4, Len(Line)))} :
       \E first_space \in {i \in 1..Len(content) : content[i] = " " /\ \A j \in 1..(i - 1) : content[j] # " "} :
         \E rest \in {trim(SubSeq(content, first_space, Len(content)))} :
           Block([f |-> ">>", statements |-> ctl.statements,
                  var |-> to_string(trim(SubSeq(content, 1, first_space - 1))),
                  list_expr |-> header_expr(IF IsPrefixAt(rest, <<"-", ">">>, 1) THEN trim(SubSeq(rest, 3, Len(rest))) ELSE rest, 0)])
  /\ prev' = Snap("ParseFor")
  /\ UNCHANGED <<scopes, rng_state, out>>

ParseIf ==
  /\ AtLine("?")
  /\ Block([f |-> "?", statements |-> ctl.statements, cond |-> header_expr(Line, 2)])
  /\ prev' = Snap("ParseIf")
  /\ UNCHANGED <<scopes, rng_state, out>>

\* `if let Some(stmt) = parse_simple_statement(line) { statements.push(stmt); } *current += 1;`
ParseSimple ==
  /\ AtLine("simple")
  /\ ctl' = Parsing(ctl.lines, ctl.current + 1, ctl.statements \o parse_simple_statement(Line))
  /\ prev' = Snap("ParseSimple")
  /\ UNCHANGED <<scopes, rng_state, out, stack>>

MaxLines == 5

\* The lines every text of at most MaxLines lines is drawn from: a closing
\* brace, an else, an if, and two statements that differ
CoreLines == {<<"}">>, <<"?", "?", " ", "{">>, <<"?", " ", "c", " ", "{">>, <<"a", "+", "+">>, <<"b", "+", "+">>}

RECURSIVE Texts(_)
\* The texts of at most n lines over CoreLines
Texts(n) ==
  IF n = 0 THEN {<< >>}
  ELSE Let(Texts(n - 1), LAMBDA shorter : shorter \cup {Append(ls, l) : ls \in shorter, l \in CoreLines})

\* Longer texts, with the other kinds of line:
\*   f(p q) => / a++ / } / g(p) ~> p / @ c { / ?? { / b++ / } / a++ / } / >> e -> xs { / b-- / }
\*   ? c { / a++ / } / ?? d { / b++ / } / ??{ / a++ / } / ?? { / b++ / } / a++
\*   ? 1 { / } / ?? no { / } / ??x / -> a / } / a / } / a++
\*   @ yes { / ? c { / a++ / ?? d { / b++ / } / b++ / } / ?? { / a++ / } / }} / a++
Samples ==
  { << <<"f", "(", "p", " ", "q", ")", " ", "=", ">">>, <<"a", "+", "+">>, <<"}">>, <<"g", "(", "p", ")", " ", "~", ">", " ", "p">>, <<"@", " ", "c", " ", "{">>, <<"?", "?", " ", "{">>, <<"b", "+", "+">>, <<"}">>, <<"a", "+", "+">>, <<"}">>, <<">", ">", " ", "e", " ", "-", ">", " ", "x", "s", " ", "{">>, <<"b", "-", "-">>, <<"}">> >>,
    << <<"?", " ", "c", " ", "{">>, <<"a", "+", "+">>, <<"}">>, <<"?", "?", " ", "d", " ", "{">>, <<"b", "+", "+">>, <<"}">>, <<"?", "?", "{">>, <<"a", "+", "+">>, <<"}">>, <<"?", "?", " ", "{">>, <<"b", "+", "+">>, <<"}">>, <<"a", "+", "+">> >>,
    << <<"?", " ", "1", " ", "{">>, <<"}">>, <<"?", "?", " ", "n", "o", " ", "{">>, <<"}">>, <<"?", "?", "x">>, <<"-", ">", " ", "a">>, <<"}">>, <<"a">>, <<"}">>, <<"a", "+", "+">> >>,
    << <<"@", " ", "y", "e", "s", " ", "{">>, <<"?", " ", "c", " ", "{">>, <<"a", "+", "+">>, <<"?", "?", " ", "d", " ", "{">>, <<"b", "+", "+">>, <<"}">>, <<"b", "+", "+">>, <<"}">>, <<"?", "?", " ", "{">>, <<"a", "+", "+">>, <<"}">>, <<"}", "}">>, <<"a", "+", "+">> >> }

\* parse hands parse_lines the lines of the text, trimmed, the empty ones
\* dropped, and a cursor at 0
InitParse ==
  /\ ctl \in {Parsing(ls, 0, << >>) : ls \in Texts(MaxLines) \cup Samples}
  /\ stack = << >>
  /\ scopes = <<HashMapNew>>
  /\ rng_state = ToBits(123456789)
  /\ out = << >>
  /\ prev = [act |-> "new", ctl |-> Halted, stack |-> << >>, scopes |-> scopes, out |-> << >>, rng_state |-> rng_state]

NextParse ==
  \/ ParseClose \/ ParseEnd \/ ParseOrphan
  \/ ParseQuickFunctionDef \/ ParseFunctionDef \/ ParseWhile \/ ParseFor \/ ParseIf
  \/ ParseSimple

SpecParse == InitParse /\ [][NextParse]_vars

\* The loop of parse_lines runs on while it has a line to take or a caller
\* to return to
SpecParseLive == SpecParse /\ WF_vars(NextParse)

(***************************************************************************)
(* Properties.  prev holds the state the last step was taken from and the  *)
(* step's name, so a property of a step reads as a property of a state.    *)
(***************************************************************************)
PrevTop == prev.stack[Len(prev.stack)]

\* The frames of the invocations in progress in a stack of frames
CallFrames(stk) == {i \in 1..Len(stk) : stk[i].f = "Call"}

\* C1: when a call of a user Function returns, the scope stack is as deep as
\* it was when the call was made, whether the body recursed, returned from
\* inside nested blocks or fell off its end.
C1_ScopeDiscipline ==
  prev.act = "CallReturn" => Len(scopes) = PrevTop.depth /\ scopes = SubSeq(prev.scopes, 1, PrevTop.depth)

\* A recursive invocation (made from inside another) has returned a value
C1_Witness ==
  /\ prev.act = "CallReturn"
  /\ PrevTop.depth >= 2
  /\ prev.ctl.r # None
  /\ Len(scopes) = PrevTop.depth

\* C2: a Some(v) produced by Return passes unchanged through every enclosing
\* block and loop, with no further statement run, no condition evaluated and
\* no output written, up to the nearest Function invocation, where it becomes
\* the value of the call; at top level it ends the program.
C2_ReturnPropagation ==
  (prev.act # "new" /\ prev.ctl.m = "res" /\ prev.ctl.r # None) =>
     /\ out = prev.out
     /\ rng_state = prev.rng_state
     /\ IF Len(prev.stack) = 0 THEN ctl = Halted /\ scopes = prev.scopes
        ELSE /\ stack = SubSeq(prev.stack, 1, Len(prev.stack) - 1)
             /\ PrevTop.f \in {"Block", "While", "For", "Call"}
             /\ IF PrevTop.f = "Call"
                THEN ctl = Val(prev.ctl.r[1]) /\ scopes = SubSeq(prev.scopes, 1, Len(prev.scopes) - 1)
                ELSE ctl = prev.ctl /\ scopes = prev.scopes

\* A Return left a While that sits in a For inside a Function invocation
C2_Witness ==
  /\ prev.act = "WhileBody"
  /\ prev.ctl.r # None
  /\ ctl = prev.ctl
  /\ \E i, j \in 1..Len(stack) : i < j /\ stack[i].f = "Call" /\ stack[j].f = "For"

\* C3: after a call marked `*` whose first argument expression is a Variable
\* x, get_var(x) is the value the call returned; any other call leaves every
\* binding as the callee left it.
C3_MutationThroughCall ==
  prev.act \in {"WriteBackStmt", "WriteBackExpr"} =>
     IF PrevTop.mutates /\ Len(PrevTop.args) > 0 /\ PrevTop.args[1].ex = "Variable"
     THEN get_var(scopes, PrevTop.args[1].name) = prev.ctl.v
     ELSE scopes = prev.scopes

\* A `*` call in an expression rebound its first argument to a new value
C3_Witness ==
  /\ prev.act = "WriteBackExpr"
  /\ PrevTop.mutates
  /\ PrevTop.args[1].ex = "Variable"
  /\ scopes # prev.scopes
  /\ get_var(scopes, PrevTop.args[1].name) = prev.ctl.v

\* C4: an assignment leaves the depth of the scope stack as it was and
\* changes one binding only: that of the innermost scope holding the name,
\* or of the current (last) scope when no scope holds it.
C4_SetFrame ==
  prev.act = "AssignValue" =>
     LET name == PrevTop.name
         H == {i \in 1..Len(prev.scopes) : name \in DOMAIN prev.scopes[i]}
         at == IF H = {} THEN Len(prev.scopes) ELSE CHOOSE i \in H : \A j \in H : j <= i
     IN /\ Len(scopes) = Len(prev.scopes)
        /\ \A i \in 1..Len(scopes) :
              IF i = at
              THEN /\ DOMAIN scopes[i] = DOMAIN prev.scopes[i] \cup {name}
                   /\ scopes[i][name] = prev.ctl.v
                   /\ \A k \in DOMAIN prev.scopes[i] \ {name} : scopes[i][k] = prev.scopes[i][k]
              ELSE scopes[i] = prev.scopes[i]

\* Inside an invocation, an assignment rebound a name only an outer scope held
C4_Witness ==
  /\ prev.act = "AssignValue"
  /\ Len(prev.scopes) >= 2
  /\ PrevTop.name \notin DOMAIN prev.scopes[Len(prev.scopes)]
  /\ PrevTop.name \in DOMAIN prev.scopes[1]
  /\ scopes[1][PrevTop.name] = prev.ctl.v
  /\ scopes[1] # prev.scopes[1]

\* C5 as stated: no scope ever has a built-in name among its keys.
C5_NoBuiltinKeys == \A i \in 1..Len(scopes) : DOMAIN scopes[i] \cap BuiltinNames = {}

\* C5: a call of a built-in name runs the built-in arm whatever the scopes
\* bind that name to, and running it stores nothing in any scope; a built-in
\* name becomes a key of a scope only by a statement of the program.
C5_BuiltinShadows ==
  /\ (prev.act # "new" /\ prev.ctl.m = "call" /\ prev.ctl.name \in BuiltinNames) =>
        /\ prev.act = "CallBuiltin"
        /\ ctl.m = "val"
        /\ scopes = prev.scopes
        /\ stack = prev.stack
  /\ prev.act = "new" => \A i \in 1..Len(scopes) : DOMAIN scopes[i] \cap BuiltinNames = {}

\* The built-in "v" ran while a scope bound the name v to a user Function
C5_Witness ==
  /\ prev.act = "CallBuiltin"
  /\ prev.ctl.name = "v"
  /\ get_var(prev.scopes, "v").t = "Function"
  /\ ctl.m = "val"
  /\ ctl.v.t = "List"

\* C6: a built-in call leaves the scope stack, the frames and the output as
\* they were, leaves rng_state as it was unless the name is "?=", and its
\* result is the same on every scope stack and, but for "?=", every rng_state.
C6_BuiltinsPure ==
  prev.act = "CallBuiltin" =>
     /\ scopes = prev.scopes
     /\ stack = prev.stack
     /\ out = prev.out
     /\ prev.ctl.name # "?=" => rng_state = prev.rng_state
     /\ \A sc \in ScopeStacks :
           call_builtin([scopes |-> sc, rng_state |-> prev.rng_state], prev.ctl.name, prev.ctl.args).ret = ctl.v
     /\ prev.ctl.name # "?=" =>
           \A seed \in Seeds :
              call_builtin([scopes |-> prev.scopes, rng_state |-> seed], prev.ctl.name, prev.ctl.args).ret = ctl.v

\* "#" measured a List while the scopes bound the name # and other names
C6_Witness ==
  /\ prev.act = "CallBuiltin"
  /\ prev.ctl.name = "#"
  /\ prev.ctl.args = <<List(<<Number(2), Number(1), Number(2)>>)>>
  /\ "#" \in DOMAIN prev.scopes[1]
  /\ ctl = Val(Number(3))
  /\ scopes = prev.scopes

\* The parameters of the invocation on top of the frames that got no argument
Missing(params, args) == {params[i] : i \in {k \in 1..Len(params) : k > Len(args)}}

\* C7 as stated: in an invocation made with fewer arguments than parameters,
\* each parameter without an argument resolves to Nothing.
C7_MissingArgsNothing ==
  prev.act = "CallFunction" =>
     \A p \in Missing(Top.params, prev.ctl.args) : get_var(scopes, p) = Nothing

\* The innermost invocation in progress in the frames stk: its frame
InnerCall(stk) == stk[CHOOSE i \in CallFrames(stk) : \A j \in CallFrames(stk) : j <= i]

\* C8 as stated: inside an invocation, assigning to one of its parameters, or
\* to a name no scope held when the statement ran, changes only the
\* invocation's own scope: the scopes under it stay as they were; and no
\* step of an invocation gives a scope under it a new name.
C8_FunctionLocal ==
  /\ (prev.act = "AssignValue" /\ CallFrames(prev.stack) # {}) =>
        LET fr == InnerCall(prev.stack)
            name == PrevTop.name
            param == \E i \in 1..Len(fr.params) : fr.params[i] = name
        IN (param \/ Holders(prev.scopes, name) = {}) =>
              \A i \in 1..fr.depth : scopes[i] = prev.scopes[i]
  /\ (prev.act # "new" /\ CallFrames(prev.stack) # {}) =>
        \A i \in 1..InnerCall(prev.stack).depth : DOMAIN scopes[i] = DOMAIN prev.scopes[i]

\* C9: an AugAssign on a name that resolves to Nothing changes nothing and
\* does not evaluate its expression; on any other name it takes the current
\* value first, then evaluates the expression, and binds the name to
\* apply_op(current, op, operand).
C9_AugAssign ==
  /\ (prev.act # "new" /\ prev.ctl.m = "exec" /\ prev.ctl.stmt.st = "AugAssign") =>
        IF get_var(prev.scopes, prev.ctl.stmt.name) = Nothing
        THEN /\ scopes = prev.scopes
             /\ stack = prev.stack
             /\ out = prev.out
             /\ rng_state = prev.rng_state
             /\ ctl = Res(None)
        ELSE /\ scopes = prev.scopes
             /\ ctl = Eval(prev.ctl.stmt.e)
             /\ Top.current_val = get_var(prev.scopes, prev.ctl.stmt.name)
  /\ prev.act = "AugAssignApply" =>
        /\ scopes = set_var(prev.scopes, PrevTop.name, apply_op(PrevTop.current_val, PrevTop.op, prev.ctl.v))
        /\ out = prev.out
        /\ PrevTop.current_val # Nothing

\* An AugAssign on a name no scope holds, with a call as its expression, was
\* passed over
C9_Witness ==
  /\ prev.act = "AugAssignNoop"
  /\ Holders(prev.scopes, prev.ctl.stmt.name) = {}
  /\ prev.ctl.stmt.e.ex = "FunctionCall"
  /\ scopes = prev.scopes
  /\ ctl = Res(None)

\* The argument vector does not fit what the built-in arm matches on
WrongArgs(name, args) ==
  CASE name \in {"?="} -> ~ArgIs(args, 0, "Number")
    [] name = "#" -> ~(ArgIs(args, 0, "List") \/ ArgIs(args, 0, "Text"))
    [] name = "$" -> ~HasArg(args, 0)
    [] name = "~" -> ~(ArgIs(args, 0, "Text") \/ ArgIs(args, 0, "Number"))
    [] name \in {"^", "><"} -> ~(ArgIs(args, 0, "List") /\ HasArg(args, 1))
    [] name \in {"&"} -> ~(ArgIs(args, 0, "List") /\ ArgIs(args, 1, "Text"))
    [] name = "|" -> ~(ArgIs(args, 0, "Text") /\ ArgIs(args, 1, "Text"))
    [] name = "!" -> ~ArgIs(args, 0, "Bool")
    [] name \in {"v", "<>", "++", "--", "<<"} -> ~ArgIs(args, 0, "List")

\* C10 as stated: a built-in called with missing or wrongly typed arguments
\* returns Nothing.
C10_WrongArgsNothing ==
  (prev.act = "CallBuiltin" /\ WrongArgs(prev.ctl.name, prev.ctl.args)) => ctl.v = Nothing

\* What each built-in gives for arguments it does not match
Fallback(name) ==
  CASE name \in {"?=", "#", "~"} -> Number(0)
    [] name \in {"$", "&"} -> Text(<< >>)
    [] name = "|" -> List(<< >>)
    [] name \in {"!", "><"} -> Bool(FALSE)
    [] name \in {"^", "v", "<>", "++", "--", "<<"} -> Nothing

\* C10: a built-in called with missing or wrongly typed arguments fails
\* silently with a fixed value of its own: Nothing for ^ v <> ++ -- <<,
\* Number 0 for ?= # ~, the empty Text for $ &, the empty List for |, Bool
\* false for ! and ><; nothing is written and no state changes.
C10_WrongArgsFallback ==
  (prev.act = "CallBuiltin" /\ WrongArgs(prev.ctl.name, prev.ctl.args)) =>
     /\ ctl = Val(Fallback(prev.ctl.name))
     /\ out = prev.out
     /\ scopes = prev.scopes
     /\ rng_state = prev.rng_state

\* "!" was called on a Text and gave Bool false
C10_Witness ==
  /\ prev.act = "CallBuiltin"
  /\ prev.ctl.name = "!"
  /\ prev.ctl.args = <<Text(<<"1", "2">>)>>
  /\ ctl = Val(Bool(FALSE))

\* The List of the Texts "a", "b" and "c"
ListABC == List(<<Text(<<"a">>), Text(<<"b">>), Text(<<"c">>)>>)

\* C11 as stated: printing the List |("a,b,c" ",") writes the line [a b c].
C11_PrintPlain ==
  (prev.act = "PrintValue" /\ prev.ctl.v = ListABC) =>
     out = Append(prev.out, <<"[", "a", " ", "b", " ", "c", "]">>)

\* C11: |("a,b,c" ",") is the List of the Texts a, b, c; printing a List
\* writes its elements separated by single spaces inside square brackets,
\* each Text element between double quotes, so that List prints as
\* ["a" "b" "c"]; &(that List "-") is the Text a-b-c, printed without quotes.
C11_PrintQuoted ==
  /\ (prev.act = "CallBuiltin" /\ prev.ctl.name = "|"
        /\ prev.ctl.args = <<Text(<<"a", ",", "b", ",", "c">>), Text(<<",">>)>>) => ctl.v = ListABC
  /\ (prev.act = "PrintValue" /\ prev.ctl.v = ListABC) =>
        out = Append(prev.out, <<"[", "\"", "a", "\"", " ", "\"", "b", "\"", " ", "\"", "c", "\"", "]">>)
  /\ (prev.act = "PrintValue" /\ prev.ctl.v.t = "List"
        /\ \A i \in 1..Len(prev.ctl.v.items) : prev.ctl.v.items[i].t = "Text") =>
        LET items == prev.ctl.v.items
            line == out[Len(out)]
        IN /\ Len(out) = Len(prev.out) + 1
           /\ line[1] = "[" /\ line[Len(line)] = "]"
           /\ Len(line) = 2 + (IF Len(items) = 0 THEN 0 ELSE Len(items) - 1)
                            + 2 * Len(items) + Len(join([i \in 1..Len(items) |-> items[i].s], << >>))
  /\ (prev.act = "CallBuiltin" /\ prev.ctl.name = "&" /\ prev.ctl.args = <<ListABC, Text(<<"-">>)>>) =>
        ctl.v = Text(<<"a", "-", "b", "-", "c">>)
  /\ (prev.act = "PrintValue" /\ prev.ctl.v = Text(<<"a", "-", "b", "-", "c">>)) =>
        out = Append(prev.out, <<"a", "-", "b", "-", "c">>)

\* The program of the example has ended with its two lines written
C11_Witness ==
  /\ ctl = Halted
  /\ out = << <<"[", "\"", "a", "\"", " ", "\"", "b", "\"", " ", "\"", "c", "\"", "]">>,
              <<"a", "-", "b", "-", "c">> >>

\* A sequence of Values all Numbers, or all Texts
Homogeneous(items) ==
  \/ \A i \in 1..Len(items) : items[i].t = "Number"
  \/ \A i \in 1..Len(items) : items[i].t = "Text"

\* No element of the sequence is greater than one after it
Ascending(items) ==
  \A i, j \in 1..Len(items) :
     i < j => IF items[i].t = "Number" THEN partial_cmp(items[i], items[j]) # Some(1)
              ELSE ~str_lt(items[j].s, items[i].s)

\* Each Value occurs as often in one sequence as in the other
Permutation(a, b) ==
  /\ Len(a) = Len(b)
  /\ \A k \in 1..Len(a) :
        Cardinality({i \in 1..Len(a) : a[i] = a[k]}) = Cardinality({i \in 1..Len(b) : b[i] = a[k]})

\* The sort laws on the call just made, when its argument is one List
SortLaws ==
  LET xs == prev.ctl.args[1]
  IN /\ prev.ctl.name = "--" => ctl.v = builtin_reverse(<<builtin_sort_asc(<<xs>>)>>)
     /\ prev.ctl.name = "++" =>
           /\ ctl.v.t = "List"
           /\ Ascending(ctl.v.items)
           /\ Permutation(ctl.v.items, xs.items)

\* The call just made is a sort of one homogeneous List
SortCall ==
  /\ prev.act = "CallBuiltin"
  /\ prev.ctl.name \in {"++", "--"}
  /\ Len(prev.ctl.args) = 1
  /\ prev.ctl.args[1].t = "List"
  /\ Homogeneous(prev.ctl.args[1].items)

\* C12 as stated: for every homogeneous List xs, --(xs) equals <>(++(xs)),
\* and ++(xs) is in ascending order and a permutation of xs.
C12_SortLawsAll == SortCall => SortLaws

\* C12: for every List xs of Texts, or of Numbers none of which is NaN,
\* repeated elements included, --(xs) equals <>(++(xs)), and ++(xs) is in
\* ascending order and a permutation of xs.
C12_SortLawsNoNaN ==
  (SortCall /\ \A i \in 1..Len(prev.ctl.args[1].items) : prev.ctl.args[1].items[i] # Inexact(0, 0)) => SortLaws

\* "--" sorted a List of Numbers with a repeated element that was not in order
C12_Witness ==
  /\ prev.act = "CallBuiltin"
  /\ prev.ctl.name = "--"
  /\ prev.ctl.args = <<List(<<Number(2), Number(0 - 1), Number(2)>>)>>
  /\ ctl.v = List(<<Number(2), Number(2), Number(0 - 1)>>)

\* The step just taken bound the variable of a For to an element
ForBinds ==
  \/ prev.act = "ForIter" /\ prev.ctl.v.t = "List" /\ Len(prev.ctl.v.items) > 0
  \/ prev.act = "ForBody" /\ prev.ctl.r = None /\ PrevTop.i < Len(PrevTop.items)

\* The element that step bound
ForItem == IF prev.act = "ForIter" THEN prev.ctl.v.items[1] ELSE PrevTop.items[PrevTop.i + 1]

\* The iterable of a For came back and was no List: no iteration, no change
ForNonList ==
  (prev.act = "ForIter" /\ prev.ctl.v.t # "List") =>
     /\ ctl = Res(None)
     /\ scopes = prev.scopes
     /\ out = prev.out
     /\ stack = SubSeq(prev.stack, 1, Len(prev.stack) - 1)

\* C13 as stated: each element is bound to the loop variable in the innermost
\* scope of the stack, and every scope under it is left as it was; an
\* iterable that is no List gives no iteration and leaves the scopes alone.
C13_ForBindsCurrent ==
  /\ ForBinds =>
        /\ Len(scopes) = Len(prev.scopes)
        /\ PrevTop.var \in DOMAIN scopes[Len(scopes)]
        /\ scopes[Len(scopes)][PrevTop.var] = ForItem
        /\ \A i \in 1..(Len(scopes) - 1) : scopes[i] = prev.scopes[i]
  /\ ForNonList

\* C13: each element is bound to the loop variable by the rule of set: in
\* the innermost scope that already holds the name, which may be a scope
\* under the current one, and in the current scope when no scope holds it;
\* every other binding and the depth of the stack stay as they were.  An
\* iterable that is no List gives no iteration and leaves the scopes alone.
C13_ForBindsBySet ==
  /\ ForBinds =>
        LET name == PrevTop.var
            H == {i \in 1..Len(prev.scopes) : name \in DOMAIN prev.scopes[i]}
            at == IF H = {} THEN Len(prev.scopes) ELSE CHOOSE i \in H : \A j \in H : j <= i
        IN /\ Len(scopes) = Len(prev.scopes)
           /\ get_var(scopes, name) = ForItem
           /\ \A i \in 1..Len(scopes) :
                 IF i = at
                 THEN /\ DOMAIN scopes[i] = DOMAIN prev.scopes[i] \cup {name}
                      /\ scopes[i][name] = ForItem
                      /\ \A k \in DOMAIN prev.scopes[i] \ {name} : scopes[i][k] = prev.scopes[i][k]
                 ELSE scopes[i] = prev.scopes[i]
  /\ ForNonList

\* Inside an invocation, a For bound its variable in the global scope, the
\* only one holding the name, and left the invocation's scope without it
C13_Witness ==
  /\ ForBinds
  /\ Len(scopes) = 2
  /\ PrevTop.var \notin DOMAIN scopes[2]
  /\ PrevTop.var \in DOMAIN prev.scopes[1]
  /\ scopes[1][PrevTop.var] = ForItem
  /\ scopes[1] # prev.scopes[1]

\* C14: an If evaluates its conditions in source order, the if's first and
\* then each elif's; the first one whose value is exactly Bool(true) has its
\* block run and ends the evaluation of conditions; every other value counts
\* as false and passes to the next condition; the else block runs exactly
\* when no condition was Bool(true).
C14_IfOneBranch ==
  /\ prev.act = "ExecIf" => ctl = Eval(prev.ctl.stmt.cond) /\ scopes = prev.scopes
  /\ prev.act = "IfCond" =>
        LET stmt == PrevTop.stmt
            conds == <<stmt.cond>> \o [i \in 1..Len(stmt.else_ifs) |-> stmt.else_ifs[i][1]]
            blocks == <<stmt.then_block>> \o [i \in 1..Len(stmt.else_ifs) |-> stmt.else_ifs[i][2]]
            n == PrevTop.j + 1
            rest == SubSeq(prev.stack, 1, Len(prev.stack) - 1)
        IN /\ scopes = prev.scopes
           /\ out = prev.out
           /\ IF prev.ctl.v = Bool(TRUE) THEN ctl = Run(blocks[n]) /\ stack = rest
              ELSE IF n < Len(conds)
              THEN /\ ctl = Eval(conds[n + 1])
                   /\ stack = Append(rest, [PrevTop EXCEPT !.j = n])
              ELSE ctl = Run(stmt.else_block) /\ stack = rest

\* The eighth condition of an If was the first to be Bool(true), after a
\* Number, a Text, a List, Nothing, a Function and two Bool(false): its block
\* runs and the ninth condition is left alone
C14_Witness ==
  /\ prev.act = "IfCond"
  /\ PrevTop.j = 7
  /\ Len(PrevTop.stmt.else_ifs) = 8
  /\ prev.ctl.v = Bool(TRUE)
  /\ ctl = Run(PrevTop.stmt.else_ifs[7][2])
  /\ get_var(scopes, "c") = Number(1)

\* x ^= x << 13; x ^= x >> 7; x ^= x << 17, bit by bit on 64 bits (bit 1 the
\* lowest): a shifted bit that leaves the 64 is lost
XorShiftBits(x) ==
  LET a == [i \in 1..64 |-> (x[i] + (IF i > 13 THEN x[i - 13] ELSE 0)) % 2]
      b == [i \in 1..64 |-> (a[i] + (IF i + 7 <= 64 THEN a[i + 7] ELSE 0)) % 2]
  IN [i \in 1..64 |-> (b[i] + (IF i > 17 THEN b[i - 17] ELSE 0)) % 2]

RECURSIVE BitsMod(_, _, _, _)
\* The number whose bits from i up are those of x, modulo m: p is 2^(i-1) mod m
BitsMod(x, m, i, p) ==
  IF i > 64 THEN 0 ELSE (x[i] * p + BitsMod(x, m, i + 1, (2 * p) % m)) % m

\* C16: rng_state is never zero; a "?=" call on a whole Number max >= 1 puts
\* the xor-shift (<<13, >>7, <<17 on 64 bits) of the state in its place and
\* returns the new state modulo max, a whole Number of 0..max-1; a call whose
\* maximum is 0 returns 0 and leaves the state as it was.
C16_RngNonZero ==
  /\ rng_state # [i \in 1..64 |-> 0]
  /\ (prev.act = "CallBuiltin" /\ prev.ctl.name = "?=" /\ Len(prev.ctl.args) > 0
        /\ prev.ctl.args[1].t = "Number" /\ "n" \in DOMAIN prev.ctl.args[1] /\ prev.ctl.args[1].n >= 0) =>
        LET max == prev.ctl.args[1].n
        IN IF max = 0 THEN ctl = Val(Number(0)) /\ rng_state = prev.rng_state
           ELSE /\ rng_state = XorShiftBits(prev.rng_state)
                /\ ctl = Val(Number(BitsMod(rng_state, max, 1, 1 % max)))
                /\ ctl.v.n \in 0..(max - 1)

\* The third "?=" call in a row, from a state with the top bit alone set, gave 1
C16_Witness ==
  /\ prev.act = "CallBuiltin"
  /\ prev.ctl.name = "?="
  /\ prev.ctl.args = <<Number(2)>>
  /\ rng_state = XorShiftBits(XorShiftBits(XorShiftBits([i \in 1..64 |-> IF i = 64 THEN 1 ELSE 0])))
  /\ ctl.v \in {Number(0), Number(1)}

\* The scopes of a stack that hold a name, and the last (innermost) of a set
\* of them
Holding(scps, name) == {i \in 1..Len(scps) : name \in DOMAIN scps[i]}

Last(S) == CHOOSE i \in S : \A j \in S : j <= i

\* C17: a name read in a function body resolves, when the body runs, to the
\* binding of the innermost scope of the live stack that holds it, the
\* scopes of the callers still active included and the global scope last
\* (Nothing when none holds it); a Function value holds parameters and body
\* only, no scope of its definition.  An assignment in a body to a name that
\* only a scope under the invocation's own holds rewrites that binding.
C17_FreeNamesLive ==
  /\ prev.act = "EvalVariable" =>
        LET H == Holding(prev.scopes, prev.ctl.e.name)
        IN /\ ctl = Val(IF H = {} THEN Nothing ELSE prev.scopes[Last(H)][prev.ctl.e.name])
           /\ scopes = prev.scopes
  /\ (prev.act = "CallFunction") =>
        LET fn_val == get_var(prev.scopes, prev.ctl.name)
        IN /\ DOMAIN fn_val = {"t", "params", "body"}
           /\ ctl = Run(fn_val.body)
           /\ SubSeq(scopes, 1, Len(prev.scopes)) = prev.scopes
  /\ (prev.act = "AssignValue" /\ CallFrames(prev.stack) # {}) =>
        LET H == Holding(prev.scopes, PrevTop.name)
        IN (H # {} /\ Last(H) < Len(prev.scopes)) =>
              /\ scopes[Last(H)][PrevTop.name] = prev.ctl.v
              /\ PrevTop.name \notin DOMAIN scopes[Len(scopes)]

\* A body with no parameter read g two invocations deep and got the 7 its
\* caller was passed, not the global g
C17_Witness ==
  /\ prev.act = "EvalVariable"
  /\ prev.ctl.e.name = "g"
  /\ Len(scopes) = 3
  /\ Holding(scopes, "g") = {1, 2}
  /\ ctl = Val(Number(7))
  /\ scopes[1]["g"] # Number(7)

\* C18: name++ or name-- on a name no scope holds binds the name to Nothing
\* in the innermost scope; on a name bound to Nothing, a Bool, a List or a
\* Function it rebinds the name to Nothing; on a name bound to the Number n
\* it rebinds it to n+1 or n-1; the last two in the innermost scope that
\* holds the name.  No other binding changes.  An AugAssign on a name that
\* resolves to Nothing leaves the scopes as they were.
C18_IncDec ==
  /\ prev.act = "ExecIncDec" =>
        LET name == prev.ctl.stmt.name
            H == Holding(prev.scopes, name)
            at == IF H = {} THEN Len(prev.scopes) ELSE Last(H)
            cur == IF H = {} THEN Nothing ELSE prev.scopes[at][name]
        IN /\ Len(scopes) = Len(prev.scopes)
           /\ \A i \in 1..Len(scopes) : i # at => scopes[i] = prev.scopes[i]
           /\ DOMAIN scopes[at] = DOMAIN prev.scopes[at] \cup {name}
           /\ \A k \in DOMAIN prev.scopes[at] \ {name} : scopes[at][k] = prev.scopes[at][k]
           /\ cur.t \in {"Nothing", "Bool", "List", "Function"} => scopes[at][name] = Nothing
           /\ (cur.t = "Number" /\ "n" \in DOMAIN cur) =>
                 scopes[at][name] = Number(IF prev.ctl.stmt.op = "++" THEN cur.n + 1 ELSE cur.n - 1)
           /\ out = prev.out
  /\ (prev.act = "AugAssignNoop" /\ Holding(prev.scopes, prev.ctl.stmt.name) = {}) =>
        scopes = prev.scopes /\ ctl = Res(None)

\* Inside an invocation, ++ on a name no scope held bound it to Nothing in
\* the invocation's scope
C18_Witness ==
  /\ prev.act = "ExecIncDec"
  /\ Len(scopes) = 2
  /\ Holding(prev.scopes, prev.ctl.stmt.name) = {}
  /\ prev.ctl.stmt.name \in DOMAIN scopes[2]
  /\ scopes[2][prev.ctl.stmt.name] = Nothing
  /\ scopes[1] = prev.scopes[1]

\* The lines that open a block, and the blocks open after the first n lines
\* of a text: one more for each line that opens one, one fewer for each `}`
Opens(l) == branch(l) \in {"??", "=>", "@", ">>", "?"}

RECURSIVE Depth(_, _)
Depth(lines, n) ==
  IF n = 0 THEN 0
  ELSE Depth(lines, n - 1) + (IF lines[n] = <<"}">> THEN 0 - 1 ELSE IF Opens(lines[n]) THEN 1 ELSE 0)

\* A text  s / ?? { / t / } / u  of three statements around an orphan else
OrphanText(lines) ==
  /\ Len(lines) = 5
  /\ lines[2] = <<"?", "?", " ", "{">>
  /\ lines[4] = <<"}">>
  /\ \A i \in {1, 3, 5} : lines[i] \in {<<"a", "+", "+">>, <<"b", "+", "+">>}

\* C15: at a line that starts with `??` and that no if chain took, the parser
\* prints one diagnostic, passes the line and goes on: it parses the lines
\* that follow as a block of their own, up to and including the `}` that
\* closes it (the invocations that wait are as many as the blocks open), and
\* drops what that block returned; the statements of the lines after that
\* `}` join those parsed before the orphan, in the same block.
C15_OrphanElse ==
  /\ (ctl.m = "parse" /\ ctl.current < Len(ctl.lines)) => Len(stack) = Depth(ctl.lines, ctl.current)
  /\ prev.act = "ParseOrphan" =>
        /\ out = Append(prev.out, OrphanedElse)
        /\ ctl = Parsing(prev.ctl.lines, prev.ctl.current + 1, << >>)
        /\ Len(stack) = Len(prev.stack) + 1
        /\ SubSeq(stack, 1, Len(prev.stack)) = prev.stack
        /\ Top.statements = prev.ctl.statements
  /\ (prev.act \in {"ParseClose", "ParseEnd"} /\ Len(prev.stack) > 0 /\ PrevTop.f = "??") =>
        /\ ctl = Parsing(prev.ctl.lines, prev.ctl.current + (IF prev.act = "ParseClose" THEN 1 ELSE 0), PrevTop.statements)
        /\ stack = SubSeq(prev.stack, 1, Len(prev.stack) - 1)
        /\ out = prev.out
  /\ (ctl.m = "parsed" /\ OrphanText(ctl.lines)) =>
        /\ ctl.statements = parse_simple_statement(ctl.lines[1]) \o parse_simple_statement(ctl.lines[5])
        /\ ctl.current = 5
        /\ out = <<OrphanedElse>>

\* a++ / ?? { / b++ / } / a++ was parsed to the two a++, with one diagnostic
C15_Witness ==
  /\ ctl.m = "parsed"
  /\ ctl.lines = <<<<"a", "+", "+">>, <<"?", "?", " ", "{">>, <<"b", "+", "+">>, <<"}">>, <<"a", "+", "+">>>>
  /\ ctl.statements = <<IncDec("a", "++"), IncDec("a", "++")>>
  /\ out = <<OrphanedElse>>
  /\ prev.act = "ParseEnd"

\* C19: a `}` met by the invocation parse started ends the parse: parse
\* returns the statements gathered from the lines before it, no diagnostic is
\* printed, the cursor stands just after that `}` and no step follows, so the
\* lines after it are never read.  The end of the lines returns from every
\* invocation in turn, each block taken as it stands, with no diagnostic.
\* Every other step moves the cursor forward by at least one line, and the
\* parse of every text ends.
C19_ParseEnds ==
  /\ [](/\ (prev.act = "ParseClose" /\ prev.stack = << >>) =>
              /\ ctl = Parsed(prev.ctl.lines, prev.ctl.current + 1, prev.ctl.statements)
              /\ ctl.lines[ctl.current] = <<"}">>
              /\ out = prev.out
        /\ prev.act # "new" => prev.ctl.m = "parse"
        /\ prev.act = "ParseEnd" =>
              /\ out = prev.out
              /\ ctl.current = prev.ctl.current
              /\ ctl.current = Len(ctl.lines)
              /\ IF prev.stack = << >>
                 THEN ctl = Parsed(prev.ctl.lines, prev.ctl.current, prev.ctl.statements)
                 ELSE ctl.m = "parse" /\ stack = SubSeq(prev.stack, 1, Len(prev.stack) - 1)
        /\ prev.act \notin {"new", "ParseEnd"} => ctl.current > prev.ctl.current
        /\ ctl.current <= Len(ctl.lines))
  /\ <>(ctl.m = "parsed")

\* a++ / } / b++ / ? c { / b++ : the parse ended at the `}` of line 2 with
\* the one a++ and three lines unread
C19_Witness ==
  /\ ctl = Parsed(<<<<"a", "+", "+">>, <<"}">>, <<"b", "+", "+">>, <<"?", " ", "c", " ", "{">>, <<"b", "+", "+">>>>, 2, <<IncDec("a", "++")>>)
  /\ prev.act = "ParseClose"
  /\ out = << >>

====
